---------------------------- MODULE Spec2Model ----------------------------
(***************************************************************************)
(* MarketAgent: the indicator normalisation and presentation pipeline.     *)
(*                                                                         *)
(* Python values are modelled as follows.                                  *)
(*   str    a TLA+ string; the operations the code uses on strings         *)
(*          (lower, in, startswith, endswith, comparison) are defined      *)
(*          below character by character.                                  *)
(*   dict   a sequence of records [k |-> key, v |-> value] with distinct   *)
(*          keys, in insertion order (Python dicts keep it).               *)
(*   list   a sequence.                                                    *)
(***************************************************************************)
EXTENDS Integers, Sequences, FiniteSets, TLC

VARIABLES
    key,            \* the indicator key handed to the classifiers
    cliSection,     \* frontend/cli/main.py _classify_indicator(key), or NotCalled
    webSection,     \* frontend/web/server.py _classify_indicator(key), or NotCalled
    anaSection,     \* analysis/stock/single_stock.py _classify_indicator(key), or NotCalled
    stocks,         \* the serialised base maps handed to the groupers, one per stock
    grouper,        \* the grouper that was called and the stock it was called on
    grouped,        \* what that grouper returned
    fetched,        \* the provider's answers: quote, profile, financials, recommendations
    queried,        \* the outcome of query_stock_indicators
    built,          \* the outcome of build_base_indicators called on a fetcher directly
    body,           \* the outcome of base.as_dict()
    payload,        \* the outcome of snapshot.as_dict()
    trendRows,      \* the recommendation rows handed to the summary
    summary,        \* the latest row, the summary and the counts taken from the rows
    fmtKey,         \* the key handed to _format_base_value
    fmtValue,       \* the value handed to _format_base_value
    fmtResult,      \* the outcome of _format_base_value(fmtKey, fmtValue)
    sortedKey,      \* the indicator key handed to the sort keys
    cliKey,         \* frontend/cli/main.py _sort_key(sortedKey), or NotCalledYet
    webKey,         \* frontend/web/server.py _sort_key(sortedKey), or NotCalledYet
    anaKey,         \* analysis/stock/single_stock.py _sort_key(sortedKey), or NotCalledYet
    calls,          \* the payloads handed to the provider's analyze_section, in order
    analysed,       \* the outcome of analyze_single_stock_sections
    requested,      \* the `symbol` query parameter of a request for the web index page
    lookups,        \* the symbols handed to client.query by index, in order, with the outcome
    page            \* what index renders: the stocks of the comparison table and its rows

classifyVars == <<key, cliSection, webSection, anaSection>>
groupVars == <<stocks, grouper, grouped>>
snapshotVars == <<fetched, queried, built, body, payload>>
recommendationVars == <<trendRows, summary>>
formatVars == <<fmtKey, fmtValue, fmtResult>>
sortVars == <<sortedKey, cliKey, webKey, anaKey>>
analyzeVars == <<calls, analysed>>
indexVars == <<requested, lookups, page>>
vars ==
    <<classifyVars, groupVars, snapshotVars, recommendationVars, formatVars, sortVars,
      analyzeVars, indexVars>>

\* The value of a result variable before the call that sets it.
NotCalled == "<not called>"
NotCalledYet == [status |-> "not called"]

\* Each part of the pipeline at rest.
NoGrouper == [variant |-> "none", stock |-> 0]
NothingFetched ==
    [quote |-> << >>, profile |-> << >>, financials |-> << >>, recommendations |-> << >>]
IdleClassify ==
    key = "" /\ cliSection = NotCalled /\ webSection = NotCalled /\ anaSection = NotCalled
IdleGroup == stocks = << >> /\ grouper = NoGrouper /\ grouped = << >>
IdleSnapshot ==
    /\ fetched = NothingFetched
    /\ queried = NotCalledYet
    /\ built = NotCalledYet
    /\ body = NotCalledYet
    /\ payload = NotCalledYet
IdleRecommendation == trendRows = << >> /\ summary = NotCalledYet
IdleFormat == fmtKey = "" /\ fmtValue = [t |-> "None"] /\ fmtResult = NotCalledYet
IdleSortKey ==
    sortedKey = "" /\ cliKey = NotCalledYet /\ webKey = NotCalledYet /\ anaKey = NotCalledYet
IdleAnalyze == calls = << >> /\ analysed = NotCalledYet
IdleIndex == requested = "" /\ lookups = << >> /\ page = NotCalledYet

(***************************************************************************)
(* Strings                                                                 *)
(***************************************************************************)

\* Runs of consecutive ASCII characters, each with the code of its first character:
\* the characters that occur in keys, labels, periods and formatted values.
AsciiRuns ==
    << [chars |-> " ", first |-> 32],
       [chars |-> "$%&", first |-> 36],
       [chars |-> "-./0123456789:", first |-> 45],
       [chars |-> "ABCDEFGHIJKLMNOPQRSTUVWXYZ", first |-> 65],
       [chars |-> "_", first |-> 95],
       [chars |-> "abcdefghijklmnopqrstuvwxyz", first |-> 97] >>

CharAt(s, i) == SubSeq(s, i, i)

\* ord(c) of a one-character string, and its inverse.
ord ==
    [c \in UNION { { CharAt(r.chars, i) : i \in 1..Len(r.chars) } : r \in { AsciiRuns[j] : j \in DOMAIN AsciiRuns } } |->
        LET r == CHOOSE r \in { AsciiRuns[j] : j \in DOMAIN AsciiRuns } :
                     \E i \in 1..Len(r.chars) : CharAt(r.chars, i) = c
        IN  r.first - 1 + (CHOOSE i \in 1..Len(r.chars) : CharAt(r.chars, i) = c)]
chr(n) == CHOOSE c \in DOMAIN ord : ord[c] = n

\* str.lower() on one character: A-Z (65..90) map to a-z (97..122).
lowerTable == [c \in DOMAIN ord |-> IF ord[c] \in 65..90 THEN chr(ord[c] + 32) ELSE c]
LowerChar(c) == lowerTable[c]

RECURSIVE lower(_)
lower(s) ==
    IF s = "" THEN "" ELSE LowerChar(CharAt(s, 1)) \o lower(SubSeq(s, 2, Len(s)))

\* Python's `t in s` on strings.
Contains(s, t) ==
    \E i \in 1..(Len(s) - Len(t) + 1) : SubSeq(s, i, i + Len(t) - 1) = t

\* s.startswith(p), s.endswith(p)
StartsWith(s, p) == Len(s) >= Len(p) /\ SubSeq(s, 1, Len(p)) = p
EndsWith(s, p) == Len(s) >= Len(p) /\ SubSeq(s, Len(s) - Len(p) + 1, Len(s)) = p

\* any(token in s for token in tokens)
ContainsAny(s, tokens) == \E t \in tokens : Contains(s, t)

(***************************************************************************)
(* Python values of the derivation and formatting code.                    *)
(*   None    [t |-> "None"]                                                *)
(*   int     [t |-> "int", n |-> n]; BigInt stands for an int above the    *)
(*           range of a float, such as 10**400                             *)
(*   float   [t |-> "float", num |-> n, den |-> d]: the number n/d in      *)
(*           lowest terms, d > 0.  Only finite floats are modelled, a zero *)
(*           carries no sign, and sums, differences and quotients are      *)
(*           exact; the rounding of a double shows where the code formats  *)
(*           a value (Fmt2).                                               *)
(*   str     [t |-> "str", s |-> s]                                        *)
(*   dict    [t |-> "dict", items |-> the entries]                         *)
(*   list    [t |-> "list", items |-> the elements]                        *)
(* A call that raises yields [t |-> "raise", exc |-> the exception name].  *)
(***************************************************************************)

None == [t |-> "None"]
IntValue(n) == [t |-> "int", n |-> n]
BigInt == [t |-> "bigint"]
StrValue(s) == [t |-> "str", s |-> s]
DictValue(items) == [t |-> "dict", items |-> items]
ListValue(items) == [t |-> "list", items |-> items]
Raise(exc) == [t |-> "raise", exc |-> exc]
IsRaise(v) == v.t = "raise"

Abs(n) == IF n < 0 THEN -n ELSE n

RECURSIVE GCD(_, _)
GCD(a, b) == IF b = 0 THEN a ELSE GCD(b, a % b)

FloatValue(num, den) ==
    LET g == GCD(Abs(num), den)
    IN  [t |-> "float", num |-> num \div g, den |-> den \div g]

\* float + float, float - float, float / float, float * int, float / int
Add(a, b) == FloatValue(a.num * b.den + b.num * a.den, a.den * b.den)
Sub(a, b) == FloatValue(a.num * b.den - b.num * a.den, a.den * b.den)
TrueDiv(a, b) ==
    IF b.num = 0 THEN Raise("ZeroDivisionError")
    ELSE FloatValue((IF b.num < 0 THEN -1 ELSE 1) * a.num * b.den, a.den * Abs(b.num))
MulInt(x, n) ==
    LET g == GCD(x.den, n) IN FloatValue(x.num * (n \div g), x.den \div g)
DivInt(x, n) ==
    LET g == GCD(Abs(x.num), n) IN FloatValue(x.num \div g, x.den * (n \div g))

\* abs(x) >= n for a float x and an int n > 0
AbsAtLeast(x, n) == Abs(x.num) \div x.den >= n

\* bool(value): the truth value an `if value:` tests.
Truthy(value) ==
    CASE value.t = "None" -> FALSE
      [] value.t = "int" -> value.n # 0
      [] value.t = "float" -> value.num # 0
      [] value.t = "str" -> value.s # ""
      [] value.t \in {"dict", "list"} -> value.items # << >>
      [] OTHER -> TRUE

\* dict.get(k) and `k in dict` on a sequence of entries.
Has(items, k) == \E i \in DOMAIN items : items[i].k = k
Get(items, k) ==
    IF Has(items, k) THEN items[CHOOSE i \in DOMAIN items : items[i].k = k].v ELSE None

IsDigit(c) == c \in DOMAIN ord /\ ord[c] \in 48..57
AllDigits(s) == \A i \in 1..Len(s) : IsDigit(CharAt(s, i))

RECURSIVE DigitsValue(_)
DigitsValue(s) ==
    IF s = "" THEN 0
    ELSE DigitsValue(SubSeq(s, 1, Len(s) - 1)) * 10 + (ord[CharAt(s, Len(s))] - 48)

RECURSIVE Pow10(_)
Pow10(n) == IF n = 0 THEN 1 ELSE 10 * Pow10(n - 1)

RECURSIVE strip(_)
strip(s) ==
    IF s = "" THEN ""
    ELSE IF CharAt(s, 1) = " " THEN strip(SubSeq(s, 2, Len(s)))
    ELSE IF CharAt(s, Len(s)) = " " THEN strip(SubSeq(s, 1, Len(s) - 1))
    ELSE s

\* The sign and the rest of a numeric literal.
Unsigned(s) == IF StartsWith(s, "-") \/ StartsWith(s, "+") THEN SubSeq(s, 2, Len(s)) ELSE s
SignOf(s) == IF StartsWith(s, "-") THEN -1 ELSE 1

\* The place of the first point of u, or Len(u) + 1.
PointAt(u) ==
    IF \E i \in 1..Len(u) : CharAt(u, i) = "."
    THEN CHOOSE i \in 1..Len(u) :
            CharAt(u, i) = "." /\ \A j \in 1..(i - 1) : CharAt(u, j) # "."
    ELSE Len(u) + 1

\* The number with integer digits ip and fraction digits fp.
DecimalValue(sign, ip, fp) ==
    IF AllDigits(ip) /\ AllDigits(fp) /\ ip \o fp # ""
    THEN FloatValue(sign * DigitsValue(ip \o fp), Pow10(Len(fp)))
    ELSE Raise("ValueError")

\* float(str) for plain decimal literals: optional sign, digits, at most one point.
\* (Exponents, underscores, inf and nan are not read: the strings given to the
\* model are decimal literals or not numbers at all.)
ParseFloat(s) ==
    LET Split(sign, u, d) == DecimalValue(sign, SubSeq(u, 1, d - 1), SubSeq(u, d + 1, Len(u)))
        Unsign(sign, u) == Split(sign, u, PointAt(u))
        Stripped(t) == Unsign(SignOf(t), Unsigned(t))
    IN  Stripped(strip(s))

\* int(str) for plain integer literals.
ParseInt(s) ==
    LET Digits(sign, u) ==
            IF AllDigits(u) /\ u # "" THEN IntValue(sign * DigitsValue(u))
            ELSE Raise("ValueError")
        Stripped(t) == Digits(SignOf(t), Unsigned(t))
    IN  Stripped(strip(s))

\* float(value)
float(value) ==
    CASE value.t = "float" -> value
      [] value.t = "int" -> FloatValue(value.n, 1)
      [] value.t = "bigint" -> Raise("OverflowError")
      [] value.t = "str" -> ParseFloat(value.s)
      [] OTHER -> Raise("TypeError")

\* int(value): a float is truncated towards zero.
int(value) ==
    CASE value.t = "int" -> value
      [] value.t = "bigint" -> value
      [] value.t = "float" ->
            IntValue((IF value.num < 0 THEN -1 ELSE 1) * (Abs(value.num) \div value.den))
      [] value.t = "str" -> ParseInt(value.s)
      [] OTHER -> Raise("TypeError")

\* try: return f(value) / except (TypeError, ValueError): return None
\* Any other exception propagates.
FailSoft(result) ==
    IF IsRaise(result) /\ result.exc \in {"TypeError", "ValueError"} THEN None ELSE result

(***************************************************************************)
(* Two-decimal formatting, f"{x:.2f}"                                      *)
(***************************************************************************)

RECURSIVE IntToStr(_)
IntToStr(n) ==
    IF n < 10 THEN chr(48 + n) ELSE IntToStr(n \div 10) \o chr(48 + (n % 10))

RECURSIVE IsPowerOfTwo(_)
IsPowerOfTwo(n) == n = 1 \/ (n % 2 = 0 /\ IsPowerOfTwo(n \div 2))

\* The e with 2^e <= a/b < 2^(e+1), for a, b > 0.
RECURSIVE Log2Floor(_, _)
Log2Floor(a, b) ==
    IF a >= 2 * b THEN 1 + Log2Floor(a, 2 * b)
    ELSE IF a < b THEN Log2Floor(2 * a, b) - 1
    ELSE 0

RECURSIVE PowMod(_, _, _)
PowMod(base, e, m) == IF e = 0 THEN 1 % m ELSE (base * PowMod(base, e - 1, m)) % m

\* Whether the double nearest to a/b lies above a/b: the 53-bit significand is
\* a * 2^s / b rounded to nearest, s = 52 - Log2Floor(a, b).
DoubleIsAbove(a, b) ==
    LET s == 52 - Log2Floor(a, b)
        r == ((a % b) * PowMod(2, s, b)) % b
    IN  2 * r > b

\* The formatting rounds the exact value of the double to the nearest hundredth,
\* an exact tie to the even one.  a/b is in lowest terms and lies half-way
\* between two hundredths: the double is a/b itself when b is a power of two,
\* and otherwise lies above or below it.
TieRoundsUp(a, b, hundredths) ==
    IF IsPowerOfTwo(b) THEN hundredths % 2 = 1 ELSE DoubleIsAbove(a, b)

\* f"{n:02d}" for 0 <= n
TwoDigits(n) == IF n < 10 THEN "0" \o IntToStr(n) ELSE IntToStr(n)

Fmt2(x) ==
    LET a == Abs(x.num)
        b == x.den
        lowerHundredths == (a * 100) \div b
        rem == (a * 100) % b
        up == IF 2 * rem > b THEN TRUE
              ELSE IF 2 * rem < b THEN FALSE
              ELSE TieRoundsUp(a, b, lowerHundredths)
        h == lowerHundredths + (IF up THEN 1 ELSE 0)
    IN  (IF x.num < 0 THEN "-" ELSE "") \o IntToStr(h \div 100) \o "." \o TwoDigits(h % 100)

(***************************************************************************)
(* Local time in America/Los_Angeles (the rules in force since 2007:       *)
(* daylight time from the second Sunday of March, 10:00 UTC, to the first  *)
(* Sunday of November, 09:00 UTC).                                         *)
(***************************************************************************)

\* Days since 1970-01-01 of a civil date, and the civil date of a day number.
days_from_civil(y0, m, d) ==
    LET y == IF m <= 2 THEN y0 - 1 ELSE y0
        era == y \div 400
        yoe == y - era * 400
        doy == (153 * (IF m > 2 THEN m - 3 ELSE m + 9) + 2) \div 5 + d - 1
        doe == yoe * 365 + yoe \div 4 - yoe \div 100 + doy
    IN  era * 146097 + doe - 719468

civil_from_days(days) ==
    LET z == days + 719468
        era == z \div 146097
        doe == z - era * 146097
        yoe == (doe - doe \div 1460 + doe \div 36524 - doe \div 146096) \div 365
        doy == doe - (365 * yoe + yoe \div 4 - yoe \div 100)
        mp == (5 * doy + 2) \div 153
        d == doy - (153 * mp + 2) \div 5 + 1
        m == IF mp < 10 THEN mp + 3 ELSE mp - 9
    IN  [year |-> yoe + era * 400 + (IF m <= 2 THEN 1 ELSE 0), month |-> m, day |-> d]

\* The first Sunday on or after a day (1970-01-01 was a Thursday).
SundayOnOrAfter(days) == days + ((7 - ((days + 4) % 7)) % 7)

IsDaylightTime(seconds) ==
    LET Within(year) ==
            /\ (SundayOnOrAfter(days_from_civil(year, 3, 1)) + 7) * 86400 + 10 * 3600 <= seconds
            /\ seconds < SundayOnOrAfter(days_from_civil(year, 11, 1)) * 86400 + 9 * 3600
    IN  Within(civil_from_days(seconds \div 86400).year)

\* The zone in force at an instant.
pacific_zone(seconds) ==
    IF IsDaylightTime(seconds) THEN [offset |-> -7 * 3600, name |-> "PDT"]
    ELSE [offset |-> -8 * 3600, name |-> "PST"]

\* datetime.fromtimestamp(seconds, tz=pacific).strftime("%Y-%m-%d %H:%M:%S %Z")
strftime_pacific(seconds) ==
    LET Stamp(date, sec, name) ==
            IntToStr(date.year) \o "-" \o TwoDigits(date.month) \o "-" \o TwoDigits(date.day)
            \o " " \o TwoDigits(sec \div 3600) \o ":" \o TwoDigits((sec % 3600) \div 60)
            \o ":" \o TwoDigits(sec % 60) \o " " \o name
        Local(local, name) == Stamp(civil_from_days(local \div 86400), local % 86400, name)
        In(zone) == Local(seconds + zone.offset, zone.name)
    IN  In(pacific_zone(seconds))

(***************************************************************************)
(* Sections                                                                *)
(***************************************************************************)

\* The eleven-entry section list of the CLI grouper and of the web comparison grouper.
ordered_sections ==
    << "Quote", "Price & Returns", "Volume & Liquidity", "Valuation",
       "Profitability & Margins", "Growth", "Cash Flow", "Balance Sheet",
       "Per-Share", "Leverage & Coverage", "3rd Party Recommendation" >>

\* The ten-entry section list of the web single-stock grouper and of the analysis grouper.
ordered_sections_short == SubSeq(ordered_sections, 1, 10)

Range(f) == { f[i] : i \in DOMAIN f }

(***************************************************************************)
(* Classifier, CLI variant                                                 *)
(***************************************************************************)

\* Mutant: the pershare rule is tested before the valuation rule.
classify_indicator_cli_pershare_first(k) ==
    LET lower_key == lower(k) IN
    IF k = "quote_timestamp" THEN "Quote"
    ELSE IF k = "previous_close" THEN "Price & Returns"
    ELSE IF ContainsAny(lower_key, {"volume", "liquidity"}) THEN "Volume & Liquidity"
    ELSE IF k \in {"beta", "moving_averages", "rsi", "macd"} THEN "Price & Returns"
    ELSE IF ContainsAny(lower_key, {"price", "return", "weekhigh", "weeklow"})
         THEN "Price & Returns"
    ELSE IF Contains(lower_key, "pershare") THEN "Per-Share"
    ELSE IF ContainsAny(lower_key, {"marketcap", "enterprisevalue", "ev", "pe"})
         THEN "Valuation"
    ELSE IF StartsWith(lower_key, "eps") THEN "Valuation"
    ELSE IF ContainsAny(lower_key, {"margin", "profit", "operatingmargin"})
         THEN (IF Contains(lower_key, "growth") THEN "Growth"
               ELSE "Profitability & Margins")
    ELSE IF ContainsAny(lower_key, {"growth", "cagr", "yoy"}) THEN "Growth"
    ELSE IF ContainsAny(lower_key, {"cashflow", "free_cash_flow", "capex"}) THEN "Cash Flow"
    ELSE IF ContainsAny(lower_key, {"cash", "debt", "equity", "bookvalue"})
         THEN "Balance Sheet"
    ELSE IF ContainsAny(lower_key, {"ratio", "coverage"}) THEN "Leverage & Coverage"
    ELSE IF ContainsAny(lower_key, {"recommendation"}) THEN "3rd Party Recommendation"
    ELSE "Price & Returns"

classify_indicator_cli(k) ==
    LET lower_key == lower(k) IN
    IF k = "quote_timestamp" THEN "Quote"
    ELSE IF k = "previous_close" THEN "Price & Returns"
    ELSE IF ContainsAny(lower_key, {"volume", "liquidity"}) THEN "Volume & Liquidity"
    ELSE IF k \in {"beta", "moving_averages", "rsi", "macd"} THEN "Price & Returns"
    ELSE IF ContainsAny(lower_key, {"price", "return", "weekhigh", "weeklow"})
         THEN "Price & Returns"
    ELSE IF ContainsAny(lower_key, {"marketcap", "enterprisevalue", "ev", "pe"})
         THEN "Valuation"
    ELSE IF StartsWith(lower_key, "eps") THEN "Valuation"
    ELSE IF ContainsAny(lower_key, {"margin", "profit", "operatingmargin"})
         THEN (IF Contains(lower_key, "growth") THEN "Growth"
               ELSE "Profitability & Margins")
    ELSE IF ContainsAny(lower_key, {"growth", "cagr", "yoy"}) THEN "Growth"
    ELSE IF ContainsAny(lower_key, {"cashflow", "free_cash_flow", "capex"}) THEN "Cash Flow"
    ELSE IF ContainsAny(lower_key, {"cash", "debt", "equity", "bookvalue"})
         THEN "Balance Sheet"
    ELSE IF Contains(lower_key, "pershare") THEN "Per-Share"
    ELSE IF ContainsAny(lower_key, {"ratio", "coverage"}) THEN "Leverage & Coverage"
    ELSE IF ContainsAny(lower_key, {"recommendation"}) THEN "3rd Party Recommendation"
    ELSE "Price & Returns"

(***************************************************************************)
(* Classifier, web variant                                                 *)
(***************************************************************************)

\* Mutant: the web variant keeps the recommendation section, as the CLI variant does.
classify_indicator_web_keeps_recommendation(k) == classify_indicator_cli(k)

classify_indicator_web(k) ==
    LET lower_key == lower(k) IN
    IF k = "quote_timestamp" THEN "Quote"
    ELSE IF k = "previous_close" THEN "Price & Returns"
    ELSE IF ContainsAny(lower_key, {"volume", "liquidity"}) THEN "Volume & Liquidity"
    ELSE IF k \in {"beta", "moving_averages", "rsi", "macd"} THEN "Price & Returns"
    ELSE IF ContainsAny(lower_key, {"price", "return", "weekhigh", "weeklow"})
         THEN "Price & Returns"
    ELSE IF ContainsAny(lower_key, {"marketcap", "enterprisevalue", "ev", "pe"})
         THEN "Valuation"
    ELSE IF StartsWith(lower_key, "eps") THEN "Valuation"
    ELSE IF ContainsAny(lower_key, {"margin", "profit", "operatingmargin"})
         THEN (IF Contains(lower_key, "growth") THEN "Growth"
               ELSE "Profitability & Margins")
    ELSE IF ContainsAny(lower_key, {"growth", "cagr", "yoy"}) THEN "Growth"
    ELSE IF ContainsAny(lower_key, {"cashflow", "free_cash_flow", "capex"}) THEN "Cash Flow"
    ELSE IF ContainsAny(lower_key, {"cash", "debt", "equity", "bookvalue"})
         THEN "Balance Sheet"
    ELSE IF Contains(lower_key, "pershare") THEN "Per-Share"
    ELSE IF ContainsAny(lower_key, {"ratio", "coverage"}) THEN "Leverage & Coverage"
    ELSE IF ContainsAny(lower_key, {"recommendation"}) THEN "Price & Returns"
    ELSE "Price & Returns"

(***************************************************************************)
(* Classifier, analysis variant: the exact keys beta, moving_averages,     *)
(* rsi, macd are tested before the volume/liquidity rule, and there is no  *)
(* recommendation rule.                                                    *)
(***************************************************************************)

\* Mutant: a key no rule matches is answered "Other", a name outside the catalog.
classify_indicator_analysis_unmatched_other(k) ==
    LET lower_key == lower(k) IN
    IF k = "quote_timestamp" THEN "Quote"
    ELSE IF k = "previous_close" THEN "Price & Returns"
    ELSE IF k \in {"beta", "moving_averages", "rsi", "macd"} THEN "Price & Returns"
    ELSE IF ContainsAny(lower_key, {"volume", "liquidity"}) THEN "Volume & Liquidity"
    ELSE IF ContainsAny(lower_key, {"price", "return", "weekhigh", "weeklow"})
         THEN "Price & Returns"
    ELSE IF ContainsAny(lower_key, {"marketcap", "enterprisevalue", "ev", "pe"})
         THEN "Valuation"
    ELSE IF StartsWith(lower_key, "eps") THEN "Valuation"
    ELSE IF ContainsAny(lower_key, {"margin", "profit", "operatingmargin"})
         THEN (IF Contains(lower_key, "growth") THEN "Growth"
               ELSE "Profitability & Margins")
    ELSE IF ContainsAny(lower_key, {"growth", "cagr", "yoy"}) THEN "Growth"
    ELSE IF ContainsAny(lower_key, {"cashflow", "free_cash_flow", "capex"}) THEN "Cash Flow"
    ELSE IF ContainsAny(lower_key, {"cash", "debt", "equity", "bookvalue"})
         THEN "Balance Sheet"
    ELSE IF Contains(lower_key, "pershare") THEN "Per-Share"
    ELSE IF ContainsAny(lower_key, {"ratio", "coverage"}) THEN "Leverage & Coverage"
    ELSE "Other"

classify_indicator_analysis(k) ==
    LET lower_key == lower(k) IN
    IF k = "quote_timestamp" THEN "Quote"
    ELSE IF k = "previous_close" THEN "Price & Returns"
    ELSE IF k \in {"beta", "moving_averages", "rsi", "macd"} THEN "Price & Returns"
    ELSE IF ContainsAny(lower_key, {"volume", "liquidity"}) THEN "Volume & Liquidity"
    ELSE IF ContainsAny(lower_key, {"price", "return", "weekhigh", "weeklow"})
         THEN "Price & Returns"
    ELSE IF ContainsAny(lower_key, {"marketcap", "enterprisevalue", "ev", "pe"})
         THEN "Valuation"
    ELSE IF StartsWith(lower_key, "eps") THEN "Valuation"
    ELSE IF ContainsAny(lower_key, {"margin", "profit", "operatingmargin"})
         THEN (IF Contains(lower_key, "growth") THEN "Growth"
               ELSE "Profitability & Margins")
    ELSE IF ContainsAny(lower_key, {"growth", "cagr", "yoy"}) THEN "Growth"
    ELSE IF ContainsAny(lower_key, {"cashflow", "free_cash_flow", "capex"}) THEN "Cash Flow"
    ELSE IF ContainsAny(lower_key, {"cash", "debt", "equity", "bookvalue"})
         THEN "Balance Sheet"
    ELSE IF Contains(lower_key, "pershare") THEN "Per-Share"
    ELSE IF ContainsAny(lower_key, {"ratio", "coverage"}) THEN "Leverage & Coverage"
    ELSE "Price & Returns"

(***************************************************************************)
(* Sort keys.  _strip_time_tokens, _time_rank and _price_return_group_rank *)
(* have the same text in cli/main.py, web/server.py and single_stock.py;   *)
(* the priority tables of _sort_key differ.                                *)
(***************************************************************************)

\* Python's a < b on strings: lexicographic by character code.
RECURSIVE StrLess(_, _)
StrLess(a, b) ==
    IF b = "" THEN FALSE
    ELSE IF a = "" THEN TRUE
    ELSE LET x == ord[CharAt(a, 1)]
             y == ord[CharAt(b, 1)]
         IN  IF x # y THEN x < y
             ELSE StrLess(SubSeq(a, 2, Len(a)), SubSeq(b, 2, Len(b)))

\* The first element of the sequence `tokens` satisfying Test, or "" when none does
\* (the `for ... if ...: break` loops over prefixes and suffixes).
FirstToken(tokens, Test(_)) ==
    IF \E i \in DOMAIN tokens : Test(tokens[i])
    THEN tokens[CHOOSE i \in DOMAIN tokens :
                    Test(tokens[i]) /\ \A j \in 1..(i - 1) : ~Test(tokens[j])]
    ELSE ""

strip_prefixes == << "5Day", "10Day", "13Week", "26Week", "52Week", "3Month", "4Week" >>
strip_suffixes == << "TTM", "Annual", "Quarterly", "5Y", "3Y", "Yoy", "YTD", "Ytd" >>

strip_time_tokens(k) ==
    LET IsPrefix(t) == StartsWith(k, t)
        prefix == FirstToken(strip_prefixes, IsPrefix)
        k1 == SubSeq(k, Len(prefix) + 1, Len(k))
        IsSuffix(t) == EndsWith(k1, t)
        suffix == FirstToken(strip_suffixes, IsSuffix)
    IN  SubSeq(k1, 1, Len(k1) - Len(suffix))

prefix_ranks ==
    << [token |-> "5Day", rank |-> 5], [token |-> "10Day", rank |-> 10],
       [token |-> "4Week", rank |-> 28], [token |-> "13Week", rank |-> 91],
       [token |-> "26Week", rank |-> 182], [token |-> "3Month", rank |-> 90],
       [token |-> "52Week", rank |-> 364] >>

suffix_ranks ==
    << [token |-> "Quarterly", rank |-> 800], [token |-> "Yoy", rank |-> 820],
       [token |-> "TTM", rank |-> 900], [token |-> "Annual", rank |-> 1000],
       [token |-> "3Y", rank |-> 1200], [token |-> "5Y", rank |-> 1500],
       [token |-> "YTD", rank |-> 600], [token |-> "Ytd", rank |-> 600] >>

\* The rank of the first entry of `table` whose token satisfies Test, or -1.
FirstRank(table, Test(_)) ==
    IF \E i \in DOMAIN table : Test(table[i].token)
    THEN table[CHOOSE i \in DOMAIN table :
                   Test(table[i].token) /\ \A j \in 1..(i - 1) : ~Test(table[j].token)].rank
    ELSE -1

\* A _time_rank that reads the suffix before the prefix.
time_rank_suffix_first(k) ==
    LET IsPrefix(t) == StartsWith(k, t)
        IsSuffix(t) == EndsWith(k, t)
        byPrefix == FirstRank(prefix_ranks, IsPrefix)
        bySuffix == FirstRank(suffix_ranks, IsSuffix)
    IN  IF bySuffix # -1 THEN bySuffix
        ELSE IF byPrefix # -1 THEN byPrefix
        ELSE IF Contains(lower(k), "monthtodate") THEN 550
        ELSE IF Contains(lower(k), "yeartodate") THEN 600
        ELSE 0

time_rank(k) ==
    LET IsPrefix(t) == StartsWith(k, t)
        IsSuffix(t) == EndsWith(k, t)
        byPrefix == FirstRank(prefix_ranks, IsPrefix)
        bySuffix == FirstRank(suffix_ranks, IsSuffix)
    IN  IF byPrefix # -1 THEN byPrefix
        ELSE IF bySuffix # -1 THEN bySuffix
        ELSE IF Contains(lower(k), "monthtodate") THEN 550
        ELSE IF Contains(lower(k), "yeartodate") THEN 600
        ELSE 0

price_return_group_rank(k) ==
    LET lower_key == lower(k) IN
    IF Contains(lower_key, "return") \/ Contains(lower_key, "pricerelativetosp500") THEN 2
    ELSE IF ContainsAny(lower_key, {"price", "weekhigh", "weeklow", "highdate", "lowdate"})
         THEN 1
    ELSE 3

\* A sort key is the tuple (bucket, timeRank, lowercaseKey).
SortKey(bucket, rank, lk) == [bucket |-> bucket, rank |-> rank, lk |-> lk]

priority_cli ==
    [k \in {"quote_timestamp", "open_price", "high_price", "low_price", "close_price",
            "previous_close", "market_cap", "volume"} |->
        CASE k = "quote_timestamp" -> -100
          [] k = "open_price" -> -90
          [] k = "high_price" -> -89
          [] k = "low_price" -> -88
          [] k = "close_price" -> -87
          [] k = "previous_close" -> -86
          [] k = "market_cap" -> -85
          [] k = "volume" -> -84]

\* web/server.py and single_stock.py share this table.
priority_web ==
    [k \in {"quote_timestamp", "open_price", "high_price", "low_price", "close_price",
            "previous_close", "price_change_pct", "volume", "turnover_rate",
            "market_cap"} |->
        CASE k = "quote_timestamp" -> -100
          [] k = "open_price" -> -90
          [] k = "high_price" -> -89
          [] k = "low_price" -> -88
          [] k = "close_price" -> -87
          [] k = "previous_close" -> -86
          [] k = "price_change_pct" -> -85
          [] k = "volume" -> -84
          [] k = "turnover_rate" -> -83
          [] k = "market_cap" -> -82]

\* A _sort_key that puts the headline keys into the last group.
sort_key_cli_headline_in_group(k) ==
    IF k \in DOMAIN priority_cli THEN SortKey("03-", priority_cli[k], lower(k))
    ELSE SortKey(TwoDigits(price_return_group_rank(k)) \o "-" \o lower(strip_time_tokens(k)),
                 time_rank(k), lower(k))

sort_key_cli(k) ==
    IF k \in DOMAIN priority_cli THEN SortKey("", priority_cli[k], lower(k))
    ELSE SortKey(TwoDigits(price_return_group_rank(k)) \o "-" \o lower(strip_time_tokens(k)),
                 time_rank(k), lower(k))

sort_key_web(k) ==
    IF k \in DOMAIN priority_web THEN SortKey("", priority_web[k], lower(k))
    ELSE SortKey(TwoDigits(price_return_group_rank(k)) \o "-" \o lower(strip_time_tokens(k)),
                 time_rank(k), lower(k))

sort_key_analysis(k) ==
    IF k \in DOMAIN priority_web THEN SortKey("", priority_web[k], lower(k))
    ELSE SortKey(TwoDigits(price_return_group_rank(k)) \o "-" \o lower(strip_time_tokens(k)),
                 time_rank(k), lower(k))

\* Python's tuple comparison a < b, and a <= b, on sort keys.
SortKeyLess(a, b) ==
    IF a.bucket # b.bucket THEN StrLess(a.bucket, b.bucket)
    ELSE IF a.rank # b.rank THEN a.rank < b.rank
    ELSE StrLess(a.lk, b.lk)

SortKeyLeq(a, b) == ~SortKeyLess(b, a)

\* list.sort(key=...): stable.  The argument is the list decorated with the keys,
\* a sequence of [item, sk]; each element in turn is inserted before the first
\* element already placed whose key is strictly greater.
RECURSIVE SortDecorated(_)
SortDecorated(pairs) ==
    IF pairs = << >> THEN << >>
    ELSE LET n == Len(pairs)
             done == SortDecorated(SubSeq(pairs, 1, n - 1))
             x == pairs[n]
             greater == { i \in DOMAIN done : SortKeyLess(x.sk, done[i].sk) }
             at == IF greater = {} THEN Len(done) + 1
                   ELSE CHOOSE i \in greater : \A j \in greater : i <= j
         IN  SubSeq(done, 1, at - 1) \o << x >> \o SubSeq(done, at, Len(done))

(***************************************************************************)
(* Labels                                                                  *)
(***************************************************************************)

IsUpper(c) == ord[c] \in 65..90
IsLowerOrDigit(c) == ord[c] \in (97..122) \cup (48..57)
IsAlnum(c) == IsUpper(c) \/ IsLowerOrDigit(c)

\* str.upper() on one character.
UpperChar(c) == IF ord[c] \in 97..122 THEN chr(ord[c] - 32) ELSE c

\* s without its leading characters that are not alphanumeric.
RECURSIVE SkipNonAlnum(_)
SkipNonAlnum(s) ==
    IF s = "" \/ IsAlnum(CharAt(s, 1)) THEN s ELSE SkipNonAlnum(SubSeq(s, 2, Len(s)))

\* re.sub(r"[^A-Za-z0-9]+", " ", value)
RECURSIVE CleanNonAlnum(_)
CleanNonAlnum(s) ==
    IF s = "" THEN ""
    ELSE IF IsAlnum(CharAt(s, 1)) THEN CharAt(s, 1) \o CleanNonAlnum(SubSeq(s, 2, Len(s)))
    ELSE " " \o CleanNonAlnum(SkipNonAlnum(s))

\* re.sub(r"([a-z0-9])([A-Z])", r"\1 \2", cleaned)
RECURSIVE SpaceCamel(_)
SpaceCamel(s) ==
    IF Len(s) < 2 THEN s
    ELSE IF IsLowerOrDigit(CharAt(s, 1)) /\ IsUpper(CharAt(s, 2))
         THEN CharAt(s, 1) \o " " \o SpaceCamel(SubSeq(s, 2, Len(s)))
    ELSE CharAt(s, 1) \o SpaceCamel(SubSeq(s, 2, Len(s)))

\* The leading characters of s up to its first space.
RECURSIVE FirstWord(_)
FirstWord(s) ==
    IF s = "" \/ CharAt(s, 1) = " " THEN ""
    ELSE CharAt(s, 1) \o FirstWord(SubSeq(s, 2, Len(s)))

\* str.split(): the words between the spaces.
RECURSIVE Split(_)
Split(s) ==
    IF s = "" THEN << >>
    ELSE IF CharAt(s, 1) = " " THEN Split(SubSeq(s, 2, Len(s)))
    ELSE LET w == FirstWord(s) IN << w >> \o Split(SubSeq(s, Len(w) + 1, Len(s)))

\* "".join(part[:1].upper() + part[1:] for part in parts)
RECURSIVE JoinCapitalised(_)
JoinCapitalised(parts) ==
    IF parts = << >> THEN ""
    ELSE UpperChar(CharAt(parts[1], 1)) \o SubSeq(parts[1], 2, Len(parts[1]))
         \o JoinCapitalised(Tail(parts))

to_title_camel(value) == JoinCapitalised(Split(SpaceCamel(CleanNonAlnum(value))))

label_for_key_cli(k) ==
    CASE k = "3MonthAvgDailyReturnStdDev" -> "3MonthAvgDailyReturnVolatilityStdDev"
      [] k = "recommendation" -> "FinnhubRecommendation"
      [] k = "recommendation_counts" -> "FinnhubRecommendationCounts"
      [] k = "focfCagr5Y" -> "FreeOperatingCashFlowCagr5Y"
      [] k = "tbvCagr5Y" -> "TangibleBookValueCagr5Y"
      [] OTHER -> to_title_camel(k)

\* str.replace(old, new): every occurrence, left to right, without overlap.
RECURSIVE Replace(_, _, _)
Replace(s, old, new) ==
    IF Len(s) < Len(old) THEN s
    ELSE IF StartsWith(s, old) THEN new \o Replace(SubSeq(s, Len(old) + 1, Len(s)), old, new)
    ELSE CharAt(s, 1) \o Replace(SubSeq(s, 2, Len(s)), old, new)

\* Stands for the one-character string U+2026 (horizontal ellipsis), which a module
\* cannot spell; no label holds this character otherwise.
Ellipsis == "~"

replacements ==
    << <<"Average", "Avg">>, <<"Quarterly", "Qtr">>, <<"Annual", "Ann">>,
       <<"Revenue", "Rev">>, <<"Profit", "Prof">>, <<"Operating", "Op">>,
       <<"Interest", "Int">>, <<"Coverage", "Cov">>, <<"Current", "Curr">>,
       <<"Relative", "Rel">>, <<"Volatility", "Vol">>, <<"Return", "Ret">>,
       <<"CashFlow", "CF">>, <<"PerShare", "PerShr">>, <<"Employee", "Emp">>,
       <<"Share", "Shr">>, <<"LongTerm", "LT">>, <<"Total", "Tot">>,
       <<"Equity", "Eq">>, <<"Debt", "Debt">>, <<"Tangible", "Tang">>,
       <<"BookValue", "BV">> >>

\* The loop of _shorten_label from replacement i on.
RECURSIVE ApplyReplacements(_, _, _)
ApplyReplacements(shortened, i, max_len) ==
    IF i > Len(replacements) \/ Len(shortened) <= max_len THEN shortened
    ELSE ApplyReplacements(Replace(shortened, replacements[i][1], replacements[i][2]),
                           i + 1, max_len)

\* A shortening that applies every entry of the list, also after the label fits.
shorten_label_every_abbreviation(label, max_len) ==
    LET Cut(shortened) ==
            IF Len(shortened) > max_len THEN SubSeq(shortened, 1, max_len - 1) \o Ellipsis
            ELSE shortened
    IN  Cut(ApplyReplacements(label, 1, 0))

shorten_label(label, max_len) ==
    LET shortened == ApplyReplacements(label, 1, max_len)
    IN  IF Len(shortened) > max_len THEN SubSeq(shortened, 1, max_len - 1) \o Ellipsis
        ELSE shortened

overrides_web ==
    [k \in {"3MonthAvgDailyReturnStdDev", "recommendation", "recommendation_counts",
            "focfCagr5Y", "tbvCagr5Y"} |->
        CASE k = "3MonthAvgDailyReturnStdDev" -> "3MoAvgDailyReturnVolStdDev"
          [] k = "recommendation" -> "FinnhubRecommendation"
          [] k = "recommendation_counts" -> "FinnhubRecommendationCounts"
          [] k = "focfCagr5Y" -> "FreeOperatingCashFlowCagr5Y"
          [] k = "tbvCagr5Y" -> "TangibleBookValueCagr5Y"]

label_for_key_web(k) ==
    LET label == IF k \in DOMAIN overrides_web THEN overrides_web[k] ELSE to_title_camel(k)
        max_len == Len(overrides_web["3MonthAvgDailyReturnStdDev"])
    IN  IF Len(label) > max_len THEN shorten_label(label, max_len) ELSE label

(***************************************************************************)
(* Grouping.  An indicator map is a sequence of [k, v]; a grouped result   *)
(* is a sequence of [section, rows].  A row of the CLI and web groupers is *)
(* the tuple (label, value), of the comparison grouper (label, key), of    *)
(* the analysis grouper (key, value); the rows here also carry the key k   *)
(* they were made from.                                                    *)
(***************************************************************************)

\* The groups `all` (one per entry of a section list) without the empty ones
\* (`if not rows: continue`).
NonEmptyGroups(all) == SelectSeq(all, LAMBDA g : g.rows # << >>)

\* The first loop of a grouper builds `sections`: each entry other than `symbol`
\* is appended to the list of its section.  Here: the entries, each with its section.
group_indicators_cli(data) ==
    LET entries == SelectSeq(data, LAMBDA e : e.k # "symbol")
        sections == [i \in DOMAIN entries |->
                        [item |-> entries[i], section |-> classify_indicator_cli(entries[i].k),
                         sk |-> sort_key_cli(entries[i].k)]]
        rowsOf(section) == SortDecorated(SelectSeq(sections, LAMBDA e : e.section = section))
        labelled(rows) ==
            [i \in DOMAIN rows |->
                [label |-> label_for_key_cli(rows[i].item.k), v |-> rows[i].item.v,
                 k |-> rows[i].item.k]]
    IN  NonEmptyGroups([i \in DOMAIN ordered_sections |->
            [section |-> ordered_sections[i], rows |-> labelled(rowsOf(ordered_sections[i]))]])

\* A grouper that leaves the rows of a section in the order of the input.
group_indicators_web_unsorted(data) ==
    LET entries == SelectSeq(data, LAMBDA e : e.k # "symbol")
        sections == [i \in DOMAIN entries |->
                        [item |-> entries[i], section |-> classify_indicator_web(entries[i].k),
                         sk |-> sort_key_web(entries[i].k)]]
        rowsOf(section) == SelectSeq(sections, LAMBDA e : e.section = section)
        labelled(rows) ==
            [i \in DOMAIN rows |->
                [label |-> label_for_key_web(rows[i].item.k), v |-> rows[i].item.v,
                 k |-> rows[i].item.k]]
    IN  NonEmptyGroups([i \in DOMAIN ordered_sections_short |->
            [section |-> ordered_sections_short[i],
             rows |-> labelled(rowsOf(ordered_sections_short[i]))]])

group_indicators_web(data) ==
    LET entries == SelectSeq(data, LAMBDA e : e.k # "symbol")
        sections == [i \in DOMAIN entries |->
                        [item |-> entries[i], section |-> classify_indicator_web(entries[i].k),
                         sk |-> sort_key_web(entries[i].k)]]
        rowsOf(section) == SortDecorated(SelectSeq(sections, LAMBDA e : e.section = section))
        labelled(rows) ==
            [i \in DOMAIN rows |->
                [label |-> label_for_key_web(rows[i].item.k), v |-> rows[i].item.v,
                 k |-> rows[i].item.k]]
    IN  NonEmptyGroups([i \in DOMAIN ordered_sections_short |->
            [section |-> ordered_sections_short[i],
             rows |-> labelled(rowsOf(ordered_sections_short[i]))]])

group_indicators_analysis(data) ==
    LET entries == SelectSeq(data, LAMBDA e : e.k # "symbol")
        sections == [i \in DOMAIN entries |->
                        [item |-> entries[i],
                         section |-> classify_indicator_analysis(entries[i].k),
                         sk |-> sort_key_analysis(entries[i].k)]]
        rowsOf(section) == SortDecorated(SelectSeq(sections, LAMBDA e : e.section = section))
        plain(rows) == [i \in DOMAIN rows |-> rows[i].item]
    IN  NonEmptyGroups([i \in DOMAIN ordered_sections_short |->
            [section |-> ordered_sections_short[i],
             rows |-> plain(rowsOf(ordered_sections_short[i]))]])

\* The keys of the maps of `stocks`, one after the other.
RECURSIVE KeysOfStocks(_)
KeysOfStocks(maps) ==
    IF maps = << >> THEN << >>
    ELSE [i \in DOMAIN maps[1] |-> maps[1][i].k] \o KeysOfStocks(Tail(maps))

\* `if key not in sections[section]: sections[section].append(key)`
RECURSIVE FirstOccurrences(_)
FirstOccurrences(keys) ==
    IF keys = << >> THEN << >>
    ELSE LET n == Len(keys)
             before == FirstOccurrences(SubSeq(keys, 1, n - 1))
         IN  IF keys[n] \in Range(before) THEN before ELSE Append(before, keys[n])

\* _group_indicator_keys: `maps` is the list of the stocks' serialised base maps.
group_indicator_keys(maps) ==
    LET keys == SelectSeq(FirstOccurrences(KeysOfStocks(maps)), LAMBDA k : k # "symbol")
        sections == [i \in DOMAIN keys |->
                        [item |-> keys[i], section |-> classify_indicator_web(keys[i]),
                         sk |-> sort_key_web(keys[i])]]
        keysOf(section) == SortDecorated(SelectSeq(sections, LAMBDA e : e.section = section))
        labelled(rows) ==
            [i \in DOMAIN rows |->
                [label |-> label_for_key_web(rows[i].item), k |-> rows[i].item]]
    IN  NonEmptyGroups([i \in DOMAIN ordered_sections |->
            [section |-> ordered_sections[i], rows |-> labelled(keysOf(ordered_sections[i]))]])

(***************************************************************************)
(* The keys the program produces                                           *)
(***************************************************************************)

\* StockBaseIndicators.as_dict: the keys serialised first, in this order.
ordered_keys ==
    << "symbol", "quote_timestamp", "open_price", "high_price", "low_price",
       "close_price", "previous_close", "volume", "market_cap", "enterprise_value",
       "beta", "short_interest_pct_float", "cash_and_equivalents", "total_debt",
       "capex", "operating_cash_flow", "free_cash_flow", "fcf_margin",
       "cash_conversion" >>

\* _extract_metric_extras: the provider metric keys copied into `extra`, in this order.
metric_extra_keys ==
    << "10DayAverageTradingVolume", "13WeekPriceReturnDaily", "26WeekPriceReturnDaily",
       "3MonthADReturnStd", "3MonthAverageTradingVolume", "52WeekHigh", "52WeekHighDate",
       "52WeekLow", "52WeekLowDate", "52WeekPriceReturnDaily", "5DayPriceReturnDaily",
       "beta", "bookValuePerShareAnnual", "bookValuePerShareQuarterly",
       "bookValueShareGrowth5Y", "capexCagr5Y", "cashFlowPerShareAnnual",
       "cashFlowPerShareQuarterly", "cashFlowPerShareTTM", "currentEv/freeCashFlowAnnual",
       "currentEv/freeCashFlowTTM", "currentRatioAnnual", "currentRatioQuarterly",
       "epsAnnual", "epsGrowth3Y", "epsGrowth5Y", "epsGrowthQuarterlyYoy",
       "epsGrowthTTMYoy", "epsInclExtraItemsAnnual", "epsInclExtraItemsTTM",
       "epsNormalizedAnnual", "epsTTM", "evRevenueTTM", "focfCagr5Y", "forwardPE",
       "grossMargin5Y", "grossMarginAnnual", "grossMarginTTM",
       "longTermDebt/equityAnnual", "longTermDebt/equityQuarterly",
       "marketCapitalization", "monthToDatePriceReturnDaily",
       "netIncomeEmployeeAnnual", "netIncomeEmployeeTTM", "netInterestCoverageAnnual",
       "netMarginGrowth5Y", "netProfitMargin5Y", "netProfitMarginAnnual",
       "netProfitMarginTTM", "operatingMargin5Y", "operatingMarginAnnual",
       "operatingMarginTTM", "payoutRatioAnnual", "peAnnual",
       "priceRelativeToS&P50013Week", "priceRelativeToS&P50026Week",
       "priceRelativeToS&P5004Week", "priceRelativeToS&P50052Week",
       "priceRelativeToS&P500Ytd", "revenueGrowth3Y", "revenueGrowth5Y",
       "revenueGrowthQuarterlyYoy", "revenueGrowthTTMYoy", "revenuePerShareAnnual",
       "revenuePerShareTTM", "revenueShareGrowth5Y", "tangibleBookValuePerShareAnnual",
       "tangibleBookValuePerShareQuarterly", "tbvCagr5Y", "totalDebt/totalEquityAnnual",
       "totalDebt/totalEquityQuarterly", "yearToDatePriceReturnDaily" >>

\* _extract_metric_extras: key_aliases and filtered_keys.
key_alias(k) == IF k = "3MonthADReturnStd" THEN "3MonthAvgDailyReturnStdDev" ELSE k
filtered_keys == {"marketCapitalization"}

\* Every key build_base_indicators can put into a serialised base map.
ProducedKeys ==
    Range(ordered_keys)
    \cup { key_alias(k) : k \in Range(metric_extra_keys) \ filtered_keys }
    \cup {"rsi", "macd", "recommendation", "recommendation_counts"}

(***************************************************************************)
(* Value formatter (market_agent/datamodel/indicators.py)                  *)
(***************************************************************************)

\* _to_float
to_float(value) == FailSoft(float(value))

\* Each formatter returns the value unchanged when it is not a number, and
\* lets an exception other than TypeError and ValueError through.
format_currency(value) ==
    LET Render(numeric) ==
            IF IsRaise(numeric) THEN numeric
            ELSE IF numeric = None THEN value
            ELSE StrValue("$" \o Fmt2(numeric))
    IN  Render(to_float(value))

format_percent(value) ==
    LET Render(numeric) ==
            IF IsRaise(numeric) THEN numeric
            ELSE IF numeric = None THEN value
            ELSE StrValue(Fmt2(numeric) \o "%")
    IN  Render(to_float(value))

format_ratio(value) ==
    LET Render(numeric) ==
            IF IsRaise(numeric) THEN numeric
            ELSE IF numeric = None THEN value
            ELSE StrValue(Fmt2(numeric) \o "x")
    IN  Render(to_float(value))

format_shares(value) ==
    LET Render(numeric) ==
            IF IsRaise(numeric) THEN numeric
            ELSE IF numeric = None THEN value
            ELSE IF AbsAtLeast(numeric, 1000000000)
                 THEN StrValue(Fmt2(DivInt(numeric, 1000000000)) \o "B shares")
            ELSE IF AbsAtLeast(numeric, 1000000)
                 THEN StrValue(Fmt2(DivInt(numeric, 1000000)) \o "M shares")
            ELSE IF AbsAtLeast(numeric, 1000)
                 THEN StrValue(Fmt2(DivInt(numeric, 1000)) \o "K shares")
            ELSE StrValue(Fmt2(numeric) \o " shares")
    IN  Render(to_float(value))

format_shares_from_millions(value) ==
    LET Render(numeric) ==
            IF IsRaise(numeric) THEN numeric
            ELSE IF numeric = None THEN value
            ELSE format_shares(MulInt(numeric, 1000000))
    IN  Render(to_float(value))

\* A market cap formatter that tests the threshold of thousands first.
format_market_cap_thousands_first(value) ==
    LET Render(numeric) ==
            IF IsRaise(numeric) THEN numeric
            ELSE IF numeric = None THEN value
            ELSE IF AbsAtLeast(numeric, 1000)
                 THEN StrValue(Fmt2(DivInt(numeric, 1000)) \o "B")
            ELSE StrValue(Fmt2(numeric) \o "M")
    IN  Render(to_float(value))

\* A market cap formatter whose thresholds are exclusive.
format_market_cap_strict_thresholds(value) ==
    LET Render(numeric) ==
            IF IsRaise(numeric) THEN numeric
            ELSE IF numeric = None THEN value
            ELSE IF AbsAtLeast(numeric, 1000000) /\ numeric # FloatValue(1000000, 1)
                 THEN StrValue(Fmt2(DivInt(numeric, 1000000)) \o "T")
            ELSE IF AbsAtLeast(numeric, 1000) /\ numeric # FloatValue(1000, 1)
                 THEN StrValue(Fmt2(DivInt(numeric, 1000)) \o "B")
            ELSE StrValue(Fmt2(numeric) \o "M")
    IN  Render(to_float(value))

\* The value is in millions.
format_market_cap(value) ==
    LET Render(numeric) ==
            IF IsRaise(numeric) THEN numeric
            ELSE IF numeric = None THEN value
            ELSE IF AbsAtLeast(numeric, 1000000)
                 THEN StrValue(Fmt2(DivInt(numeric, 1000000)) \o "T")
            ELSE IF AbsAtLeast(numeric, 1000)
                 THEN StrValue(Fmt2(DivInt(numeric, 1000)) \o "B")
            ELSE StrValue(Fmt2(numeric) \o "M")
    IN  Render(to_float(value))

format_compact_currency(value) ==
    LET Render(numeric) ==
            IF IsRaise(numeric) THEN numeric
            ELSE IF numeric = None THEN value
            ELSE StrValue("$" \o format_market_cap(numeric).s)
    IN  Render(to_float(value))

\* The fraction of a second is dropped (floor).
format_timestamp(value) ==
    LET Render(numeric) ==
            IF IsRaise(numeric) THEN numeric
            ELSE IF numeric = None THEN value
            ELSE StrValue(strftime_pacific(numeric.num \div numeric.den))
    IN  Render(to_float(value))

\* A _format_metric_value that tests the percent tokens before the currency
\* and ratio tokens.
format_metric_value_percent_first(k, value) ==
    LET Keyed(lower_key) ==
            IF value = None THEN None
            ELSE IF k \in {"10DayAverageTradingVolume", "3MonthAverageTradingVolume"}
                 THEN format_shares_from_millions(value)
            ELSE IF Contains(lower_key, "marketcapitalization")
                 THEN format_compact_currency(value)
            ELSE IF ContainsAny(lower_key, {"return", "growth", "margin", "cagr", "yoy",
                                            "payout", "pricerelativetosp500", "std"})
                 THEN format_percent(value)
            ELSE IF Contains(lower_key, "weekhigh") \/ Contains(lower_key, "weeklow")
                 THEN format_currency(value)
            ELSE IF ContainsAny(lower_key, {"pershare", "eps", "netincomeemployee"})
                 THEN format_currency(value)
            ELSE IF \/ ContainsAny(lower_key, {"currentratio", "debt/equity",
                                               "totaldebt/totalequity", "ev/", "coverage"})
                    \/ StartsWith(lower_key, "pe")
                 THEN format_ratio(value)
            ELSE None
    IN  Keyed(lower(k))

\* _format_metric_value: None when no keyword rule matches the key.
format_metric_value(k, value) ==
    LET Keyed(lower_key) ==
            IF value = None THEN None
            ELSE IF k \in {"10DayAverageTradingVolume", "3MonthAverageTradingVolume"}
                 THEN format_shares_from_millions(value)
            ELSE IF Contains(lower_key, "marketcapitalization")
                 THEN format_compact_currency(value)
            ELSE IF Contains(lower_key, "weekhigh") \/ Contains(lower_key, "weeklow")
                 THEN format_currency(value)
            ELSE IF ContainsAny(lower_key, {"pershare", "eps", "netincomeemployee"})
                 THEN format_currency(value)
            ELSE IF \/ ContainsAny(lower_key, {"currentratio", "debt/equity",
                                               "totaldebt/totalequity", "ev/", "coverage"})
                    \/ StartsWith(lower_key, "pe")
                 THEN format_ratio(value)
            ELSE IF ContainsAny(lower_key, {"return", "growth", "margin", "cagr", "yoy",
                                            "payout", "pricerelativetosp500", "std"})
                 THEN format_percent(value)
            ELSE None
    IN  Keyed(lower(k))

price_keys == {"open_price", "high_price", "low_price", "close_price", "previous_close"}
volume_keys == {"volume"}
percent_keys == {"short_interest_pct_float", "fcf_margin", "cash_conversion"}
ratio_keys == {"beta"}
compact_currency_keys ==
    { "market_cap", "enterprise_value", "cash_and_equivalents", "total_debt", "capex",
      "operating_cash_flow", "free_cash_flow" }

\* _format_base_value
format_base_value(k, value) ==
    LET Default(formatted_metric) ==
            IF formatted_metric # None THEN formatted_metric
            ELSE IF value.t = "float" THEN StrValue(Fmt2(value))
            ELSE value
    IN  IF value = None THEN None
        ELSE IF k = "quote_timestamp" THEN format_timestamp(value)
        ELSE IF k = "rsi" THEN format_percent(value)
        ELSE IF k = "macd" THEN format_currency(value)
        ELSE IF k \in price_keys THEN format_currency(value)
        ELSE IF k \in volume_keys THEN format_shares(value)
        ELSE IF k \in percent_keys THEN format_percent(value)
        ELSE IF k \in ratio_keys THEN format_ratio(value)
        ELSE IF k \in compact_currency_keys THEN format_compact_currency(value)
        ELSE Default(format_metric_value(k, value))

(***************************************************************************)
(* Derivation (finnhub_indicator_fetcher.py)                               *)
(***************************************************************************)

\* _to_optional_float, _to_optional_int
to_optional_float(value) == FailSoft(float(value))
to_optional_int(value) == FailSoft(int(value))

\* _metric_value: the number when the value converts, else the value itself.
metric_value(value) ==
    LET Parsed(numeric) == IF numeric # None THEN numeric ELSE value
    IN  IF value = None THEN None ELSE Parsed(to_optional_float(value))

\* _metric_float: the first alias that is present and converts.
RECURSIVE metric_float(_, _)
metric_float(metrics, keys) ==
    LET Tried(value) == IF value # None THEN value ELSE metric_float(metrics, Tail(keys))
    IN  IF keys = << >> THEN None
        ELSE IF ~Has(metrics, Head(keys)) THEN metric_float(metrics, Tail(keys))
        ELSE Tried(to_optional_float(Get(metrics, Head(keys))))

\* dict[k] = v: the entry is replaced in place, or appended.
SetItem(items, k, v) ==
    IF Has(items, k)
    THEN [i \in DOMAIN items |-> IF items[i].k = k THEN [k |-> k, v |-> v] ELSE items[i]]
    ELSE Append(items, [k |-> k, v |-> v])

\* A dict that overwrites nothing: an extra entry never replaces a fixed field.
RECURSIVE dict_update_keeps_existing(_, _)
dict_update_keeps_existing(data, other) ==
    IF other = << >> THEN data
    ELSE dict_update_keeps_existing(
             IF Has(data, Head(other).k) THEN data ELSE Append(data, Head(other)),
             Tail(other))

\* dict.update(other)
RECURSIVE dict_update(_, _)
dict_update(data, other) ==
    IF other = << >> THEN data
    ELSE dict_update(SetItem(data, Head(other).k, Head(other).v), Tail(other))

\* _extract_metric_extras: the loop over the keys it does not skip (a filtered
\* key, a key whose value is None), in the order of metric_extra_keys.
RECURSIVE ExtrasFrom(_, _, _)
ExtrasFrom(metrics, keys, extra) ==
    LET Parsed(k, parsed) ==
            IF IsRaise(parsed) THEN parsed
            ELSE IF parsed # None
                 THEN ExtrasFrom(metrics, Tail(keys), SetItem(extra, key_alias(k), parsed))
            ELSE ExtrasFrom(metrics, Tail(keys), extra)
    IN  IF keys = << >> THEN DictValue(extra)
        ELSE Parsed(Head(keys), metric_value(Get(metrics, Head(keys))))

extract_metric_extras(metrics) ==
    ExtrasFrom(metrics,
               SelectSeq(metric_extra_keys,
                         LAMBDA k : k \notin filtered_keys /\ Get(metrics, k) # None),
               << >>)

\* str(value) of a period: a string, an int, or None.
str(value) ==
    CASE value.t = "str" -> value.s
      [] value.t = "int" ->
            IF value.n < 0 THEN "-" \o IntToStr(-value.n) ELSE IntToStr(value.n)
      [] OTHER -> "None"

\* str(row.get("period", ""))
PeriodOf(row) == IF Has(row.items, "period") THEN str(Get(row.items, "period")) ELSE ""

\* A _latest_row that keeps the last row, whatever its period.
latest_row_last_supplied(rows) == IF rows = << >> THEN None ELSE rows[Len(rows)]

\* _latest_row: the loop over the remaining rows.
RECURSIVE LatestFrom(_, _, _)
LatestFrom(rows, latest, latest_period) ==
    LET Compare(period) ==
            IF ~StrLess(period, latest_period)
            THEN LatestFrom(Tail(rows), Head(rows), period)
            ELSE LatestFrom(Tail(rows), latest, latest_period)
    IN  IF rows = << >> THEN latest ELSE Compare(PeriodOf(Head(rows)))

latest_row(rows) == LatestFrom(rows, None, "")

buckets ==
    << [key |-> "strongBuy", label |-> "Strong Buy"], [key |-> "buy", label |-> "Buy"],
       [key |-> "hold", label |-> "Hold"], [key |-> "sell", label |-> "Sell"],
       [key |-> "strongSell", label |-> "Strong Sell"] >>

FloatLess(a, b) == a.num * b.den < b.num * a.den

\* The `scored` dict of _summarise_recommendation, from the i-th bucket on.
RECURSIVE ScoredFrom(_, _, _)
ScoredFrom(row, i, scored) ==
    LET Step(value) ==
            LET Scored(numeric) ==
                    IF IsRaise(numeric) THEN numeric
                    ELSE IF numeric # None
                         THEN ScoredFrom(row, i + 1, SetItem(scored, buckets[i].label, numeric))
                    ELSE ScoredFrom(row, i + 1, scored)
            IN  IF value = None THEN ScoredFrom(row, i + 1, scored)
                ELSE Scored(to_optional_float(value))
    IN  IF i > Len(buckets) THEN DictValue(scored)
        ELSE Step(Get(row.items, buckets[i].key))

\* A max that answers the last of the entries with the largest value.
MaxItem_last_of_largest(items) ==
    items[CHOOSE i \in DOMAIN items :
            /\ \A j \in DOMAIN items : ~FloatLess(items[i].v, items[j].v)
            /\ \A j \in (i + 1)..Len(items) : FloatLess(items[j].v, items[i].v)]

\* max(items, key=...): the first of the entries with the largest value.
MaxItem(items) ==
    items[CHOOSE i \in DOMAIN items :
            /\ \A j \in DOMAIN items : ~FloatLess(items[i].v, items[j].v)
            /\ \A j \in 1..(i - 1) : FloatLess(items[j].v, items[i].v)]

\* _summarise_recommendation
summarise_recommendation(rows) ==
    LET Best(scored) ==
            IF IsRaise(scored) THEN scored
            ELSE IF scored.items = << >> THEN None
            ELSE StrValue(MaxItem(scored.items).k)
        Latest(row) == IF ~Truthy(row) THEN None ELSE Best(ScoredFrom(row, 1, << >>))
    IN  Latest(latest_row(rows))

\* The recommendation_counts dict: the buckets of the latest row that are not None.
recommendation_counts(row) ==
    LET present == SelectSeq(buckets, LAMBDA b : Get(row.items, b.key) # None)
    IN  DictValue([i \in DOMAIN present |->
                     [k |-> present[i].key, v |-> Get(row.items, present[i].key)]])

\* enterprise_value with a missing cash figure read as zero.
derive_enterprise_value_cash_defaults_to_zero(market_cap, total_debt, cash_and_equivalents) ==
    IF market_cap # None /\ total_debt # None
    THEN IF cash_and_equivalents # None
         THEN Sub(Add(market_cap, total_debt), cash_and_equivalents)
         ELSE Add(market_cap, total_debt)
    ELSE None

\* The derived fields (build_base_indicators, lines 125-139).
derive_enterprise_value(market_cap, total_debt, cash_and_equivalents) ==
    IF market_cap # None /\ total_debt # None /\ cash_and_equivalents # None
    THEN Sub(Add(market_cap, total_debt), cash_and_equivalents)
    ELSE None

derive_free_cash_flow(operating_cash_flow, capex) ==
    IF operating_cash_flow # None /\ capex # None THEN Sub(operating_cash_flow, capex)
    ELSE None

\* A ratio guarded by `is not None` only.
derive_ratio_unguarded(free_cash_flow, denominator) ==
    IF free_cash_flow # None /\ denominator # None THEN TrueDiv(free_cash_flow, denominator)
    ELSE None

\* fcf_margin and cash_conversion: `if free_cash_flow is not None and <denominator>:`
derive_ratio(free_cash_flow, denominator) ==
    IF free_cash_flow # None /\ Truthy(denominator) THEN TrueDiv(free_cash_flow, denominator)
    ELSE None

\* a or b
Or(a, b) == IF Truthy(a) THEN a ELSE b

\* The first raise among values, or None.
FirstRaise(values) ==
    IF \E i \in DOMAIN values : IsRaise(values[i])
    THEN values[CHOOSE i \in DOMAIN values :
                   IsRaise(values[i]) /\ \A j \in 1..(i - 1) : ~IsRaise(values[j])]
    ELSE None

\* The operations the two client classes offer.
FinnhubClient ==
    {"quote", "company_profile", "basic_financials", "earnings", "peers"}
LegacyFinnhubClient ==
    {"quote", "company_profile", "basic_financials", "recommendation_trends", "earnings",
     "peers"}

\* extra[k] = v under `if v is not None:`
SetUnlessNone(extra, k, v) == IF v # None THEN SetItem(extra, k, v) ELSE extra

\* financials.get("metric") or {}
metrics_of(financials) ==
    LET Given(m) == IF Truthy(m) THEN m.items ELSE << >>
    IN  Given(Get(financials, "metric"))

\* The values build_base_indicators reads from the provider's answers, each
\* coerced as the code coerces it (lines 39-113 and the constructor's
\* arguments, lines 143-147).
provider_values(quote, profile, metrics, recommendations, include_analysis) ==
    [ prev_close |-> to_optional_float(Get(quote, "pc")),
      timestamp |-> Get(quote, "t"),
      market_cap |-> to_optional_float(Get(profile, "marketCapitalization")),
      beta |-> metric_float(metrics, << "beta" >>),
      short_interest_pct_float |->
          metric_float(metrics, << "shortPercent", "shortPercentFloat",
                                   "shortInterestPercentOfFloat" >>),
      cash_and_equivalents |->
          metric_float(metrics, << "cashAndCashEquivalents", "cashAndCashEquivalentsTTM",
                                   "cashAndCashEquivalentsAnnual", "totalCash" >>),
      total_debt |-> metric_float(metrics, << "totalDebt", "totalDebtTTM", "totalDebtAnnual" >>),
      capex |->
          metric_float(metrics, << "capitalExpenditure", "capitalExpenditureTTM",
                                   "capitalExpenditureAnnual", "capexTTM" >>),
      operating_cash_flow |->
          metric_float(metrics, << "operatingCashFlow", "operatingCashFlowTTM",
                                   "operatingCashFlowAnnual" >>),
      revenue |-> metric_float(metrics, << "revenueTTM", "totalRevenue", "totalRevenueTTM" >>),
      net_income |->
          metric_float(metrics, << "netIncome", "netIncomeTTM",
                                   "netIncomeCommonStockholders", "netIncomeCommon" >>),
      extras |-> IF metrics # << >> THEN extract_metric_extras(metrics) ELSE DictValue(<< >>),
      rsi |-> IF include_analysis
              THEN to_optional_float(Or(Get(metrics, "14DayRSI"), Get(metrics, "RSI")))
              ELSE None,
      macd |-> IF include_analysis THEN to_optional_float(Get(metrics, "MACD")) ELSE None,
      recommendation_summary |->
          IF include_analysis THEN summarise_recommendation(recommendations) ELSE None,
      latest_row |-> IF include_analysis THEN latest_row(recommendations) ELSE None,
      open_price |-> to_optional_float(Get(quote, "o")),
      high_price |-> to_optional_float(Get(quote, "h")),
      low_price |-> to_optional_float(Get(quote, "l")),
      close_price |-> to_optional_float(Get(quote, "c")),
      volume |-> to_optional_int(Get(quote, "v")) ]

\* The recommendation entries of the extras (lines 108-123).
SetRecommendation(extra, recommendation_summary, latest) ==
    IF ~Truthy(recommendation_summary) THEN extra
    ELSE IF Truthy(latest)
         THEN SetItem(SetItem(extra, "recommendation", recommendation_summary),
                      "recommendation_counts", recommendation_counts(latest))
    ELSE SetItem(extra, "recommendation", recommendation_summary)

\* The `extra` dict of the provider values p, in the order the code fills it.
extra_of(p) ==
    SetRecommendation(
        SetUnlessNone(
            SetUnlessNone(
                dict_update(
                    SetUnlessNone(SetUnlessNone(<< >>, "previous_close", p.prev_close),
                                  "quote_timestamp", p.timestamp),
                    p.extras.items),
                "rsi", p.rsi),
            "macd", p.macd),
        p.recommendation_summary, p.latest_row)

\* The four derived fields of the provider values p (lines 125-139).
derived_fields(p) ==
    LET With(free_cash_flow) ==
            [ enterprise_value |->
                  derive_enterprise_value(p.market_cap, p.total_debt, p.cash_and_equivalents),
              free_cash_flow |-> free_cash_flow,
              fcf_margin |-> derive_ratio(free_cash_flow, p.revenue),
              cash_conversion |-> derive_ratio(free_cash_flow, p.net_income) ]
    IN  With(derive_free_cash_flow(p.operating_cash_flow, p.capex))

Returned(value) == [status |-> "returned", value |-> value]
Raised(exc, at) == [status |-> "raised", exc |-> exc, at |-> at]

\* The rest of a computation, unless one of the values before it is a raise.
Unless(raised, at, rest) == IF raised # None THEN Raised(raised.exc, at) ELSE rest

\* build_base_indicators on the answers of a client offering the
\* operations `client`.  The result tells where an exception arose: fetching,
\* coercing provider values, or deriving.
build_base_indicators(client, answers, symbol, include_analysis) ==
    LET Constructed(p, d) ==
            Returned([symbol |-> symbol, open_price |-> p.open_price,
                      high_price |-> p.high_price, low_price |-> p.low_price,
                      close_price |-> p.close_price, volume |-> p.volume,
                      market_cap |-> p.market_cap, enterprise_value |-> d.enterprise_value,
                      beta |-> p.beta,
                      short_interest_pct_float |-> p.short_interest_pct_float,
                      cash_and_equivalents |-> p.cash_and_equivalents,
                      total_debt |-> p.total_debt, capex |-> p.capex,
                      operating_cash_flow |-> p.operating_cash_flow,
                      free_cash_flow |-> d.free_cash_flow, fcf_margin |-> d.fcf_margin,
                      cash_conversion |-> d.cash_conversion, extra |-> extra_of(p)])
        Derived(p, d) ==
            Unless(FirstRaise(<< d.enterprise_value, d.free_cash_flow, d.fcf_margin,
                                 d.cash_conversion >>), "derive",
                   Unless(FirstRaise(<< p.open_price, p.high_price, p.low_price,
                                        p.close_price, p.volume >>), "coerce",
                          Constructed(p, d)))
        Coerced(p) ==
            Unless(FirstRaise(<< p.prev_close, p.market_cap, p.beta,
                                 p.short_interest_pct_float, p.cash_and_equivalents,
                                 p.total_debt, p.capex, p.operating_cash_flow, p.revenue,
                                 p.net_income, p.extras, p.rsi, p.macd,
                                 p.recommendation_summary >>), "coerce",
                   Derived(p, derived_fields(p)))
    IN  IF include_analysis /\ "recommendation_trends" \notin client
        THEN Raised("AttributeError", "fetch")
        ELSE Coerced(provider_values(answers.quote, answers.profile,
                                     metrics_of(answers.financials),
                                     IF include_analysis THEN answers.recommendations
                                     ELSE << >>,
                                     include_analysis))

(***************************************************************************)
(* Serialisation (datamodel/indicators.py, api/indicators.py)              *)
(***************************************************************************)

\* The keys of the `data` dict of StockBaseIndicators.as_dict, in its order.
fixed_field_keys ==
    << "symbol", "open_price", "high_price", "low_price", "close_price", "volume",
       "market_cap", "enterprise_value", "beta", "short_interest_pct_float",
       "cash_and_equivalents", "total_debt", "capex", "operating_cash_flow",
       "free_cash_flow", "fcf_margin", "cash_conversion" >>

\* A `data` dict that leaves the symbol out.
base_fields_without_symbol(base) ==
    [i \in 1..(Len(fixed_field_keys) - 1) |->
        [k |-> fixed_field_keys[i + 1], v |-> base[fixed_field_keys[i + 1]]]]

\* The `data` dict before the extras are merged: every fixed field, None or not.
base_fields(base) ==
    [i \in DOMAIN fixed_field_keys |-> [k |-> fixed_field_keys[i], v |-> base[fixed_field_keys[i]]]]

\* The `ordered` list of as_dict: the entries under the keys of ordered_keys,
\* in that order, and then the other entries in the order of the dict.
ordered_entries(data) ==
    LET Under(first) == [i \in DOMAIN first |-> [k |-> first[i], v |-> Get(data, first[i])]]
    IN  Under(SelectSeq(ordered_keys, LAMBDA k : Has(data, k)))
        \o SelectSeq(data, LAMBDA e : e.k \notin Range(ordered_keys))

\* `... if value is not None`
not_none(entries) == SelectSeq(entries, LAMBDA e : e.v # None)

\* A dict of formatted entries, unless formatting one of them raised.
FormattedDict(formatted) ==
    LET Result(raised) == IF raised # None THEN raised ELSE DictValue(formatted)
    IN  Result(FirstRaise([i \in DOMAIN formatted |-> formatted[i].v]))

format_base_entries(entries) ==
    [i \in DOMAIN entries |->
        [k |-> entries[i].k, v |-> format_base_value(entries[i].k, entries[i].v)]]

\* StockBaseIndicators.as_dict: the extras are merged over the fixed fields, the
\* keys of ordered_keys come first, an entry whose value is None is dropped, and
\* the others are formatted.
StockBaseIndicators_as_dict(base) ==
    FormattedDict(format_base_entries(not_none(ordered_entries(
        IF base.extra # << >> THEN dict_update(base_fields(base), base.extra)
        ELSE base_fields(base)))))

\* _format_analysis_value
format_analysis_value(k, value) ==
    IF value = None THEN None
    ELSE IF k = "moving_averages" /\ value.t = "dict"
         THEN FormattedDict([i \in DOMAIN value.items |->
                               [k |-> value.items[i].k,
                                v |-> format_currency(value.items[i].v)]])
    ELSE IF k = "rsi" THEN format_percent(value)
    ELSE IF k = "macd" THEN format_currency(value)
    ELSE IF k = "beta" THEN format_ratio(value)
    ELSE value

analysis_fields(analysis) ==
    << [k |-> "symbol", v |-> analysis.symbol],
       [k |-> "moving_averages", v |-> Or(analysis.moving_averages, None)],
       [k |-> "rsi", v |-> analysis.rsi], [k |-> "macd", v |-> analysis.macd],
       [k |-> "beta", v |-> analysis.beta],
       [k |-> "recommendation", v |-> analysis.recommendation] >>

format_analysis_entries(entries) ==
    [i \in DOMAIN entries |->
        [k |-> entries[i].k, v |-> format_analysis_value(entries[i].k, entries[i].v)]]

\* StockAnalysisIndicators.as_dict
StockAnalysisIndicators_as_dict(analysis) ==
    FormattedDict(format_analysis_entries(not_none(
        IF analysis.extra # << >> THEN dict_update(analysis_fields(analysis), analysis.extra)
        ELSE analysis_fields(analysis))))

\* StockIndicatorSnapshot.as_dict
StockIndicatorSnapshot_as_dict(snapshot) ==
    LET WithAnalysis(entries, analysis) ==
            IF IsRaise(analysis) THEN analysis
            ELSE DictValue(Append(entries, [k |-> "analysis", v |-> analysis]))
        WithBase(base) ==
            IF IsRaise(base) THEN base
            ELSE IF snapshot.analysis = None
                 THEN DictValue(<< [k |-> "symbol", v |-> snapshot.symbol],
                                   [k |-> "base", v |-> base] >>)
            ELSE WithAnalysis(<< [k |-> "symbol", v |-> snapshot.symbol],
                                 [k |-> "base", v |-> base] >>,
                              StockAnalysisIndicators_as_dict(snapshot.analysis))
    IN  WithBase(StockBaseIndicators_as_dict(snapshot.base))

\* query_stock_indicators: the client is always market_agent.datasources.finnhub's
\* FinnhubClient, and `analysis` is always None.
query_stock_indicators(answers, symbol, resolved_key, include_analysis) ==
    LET Snapshot(base) ==
            IF base.status = "raised" THEN base
            ELSE Returned([symbol |-> symbol, base |-> base.value, analysis |-> None])
    IN  IF ~resolved_key THEN Raised("RuntimeError", "configure")
        ELSE Snapshot(build_base_indicators(FinnhubClient, answers, symbol, include_analysis))

(***************************************************************************)
(* Input keys of the classifier check: the produced keys, the exact keys   *)
(* of the rules, and every concatenation of at most MaxFragments fragments *)
(* (a fragment for each rule, in both letter cases).                       *)
(***************************************************************************)

MaxFragments == 2

Fragments ==
    { "x", "Volume", "return", "ev", "eps", "Margin", "growth", "cashflow", "debt",
      "PerShare", "ratio", "Recommendation" }

RECURSIVE Concatenations(_)
Concatenations(n) ==
    IF n = 0 THEN {""}
    ELSE LET shorter == Concatenations(n - 1)
         IN  shorter \cup { p \o f : p \in shorter, f \in Fragments }

ClassifierKeys ==
    ProducedKeys \cup {"moving_averages"} \cup Concatenations(MaxFragments)

(***************************************************************************)
(* Specification of the classifiers: a key is given, each variant may be   *)
(* called on it.                                                           *)
(***************************************************************************)

InitClassify ==
    /\ key \in ClassifierKeys
    /\ cliSection = NotCalled
    /\ webSection = NotCalled
    /\ anaSection = NotCalled
    /\ IdleGroup
    /\ IdleSnapshot
    /\ IdleRecommendation
    /\ IdleFormat
    /\ IdleSortKey
    /\ IdleAnalyze
    /\ IdleIndex

ClassifyCli ==
    /\ cliSection = NotCalled
    /\ cliSection' = classify_indicator_cli(key)
    /\ UNCHANGED <<key, webSection, anaSection, groupVars, snapshotVars, recommendationVars,
                   formatVars, sortVars, analyzeVars, indexVars>>

ClassifyWeb ==
    /\ webSection = NotCalled
    /\ webSection' = classify_indicator_web(key)
    /\ UNCHANGED <<key, cliSection, anaSection, groupVars, snapshotVars, recommendationVars,
                   formatVars, sortVars, analyzeVars, indexVars>>

ClassifyAnalysis ==
    /\ anaSection = NotCalled
    /\ anaSection' = classify_indicator_analysis(key)
    /\ UNCHANGED <<key, cliSection, webSection, groupVars, snapshotVars, recommendationVars,
                   formatVars, sortVars, analyzeVars, indexVars>>

NextClassify == ClassifyCli \/ ClassifyWeb \/ ClassifyAnalysis

SpecClassify == InitClassify /\ [][NextClassify]_vars

(***************************************************************************)
(* The classifier's rule list as the specification states it (section 4.3):*)
(* exact-key rules read the raw key, the others the lowercased key.  A     *)
(* rule matches when the key is one of `exact`, contains one of `sub` or   *)
(* starts with one of `pre`; rule 7 answers `ifGrowth` when the key also   *)
(* contains "growth"; rule 14 is the default.                              *)
(***************************************************************************)

Rule(exact, sub, pre, section) ==
    [exact |-> exact, sub |-> sub, pre |-> pre, section |-> section,
     ifGrowth |-> section, default |-> FALSE]

StatedRules ==
    << Rule({"quote_timestamp"}, {}, {}, "Quote"),
       Rule({"previous_close"}, {}, {}, "Price & Returns"),
       Rule({}, {"volume", "liquidity"}, {}, "Volume & Liquidity"),
       Rule({"beta", "moving_averages", "rsi", "macd"}, {}, {}, "Price & Returns"),
       Rule({}, {"price", "return", "weekhigh", "weeklow"}, {}, "Price & Returns"),
       Rule({}, {"marketcap", "enterprisevalue", "ev", "pe"}, {"eps"}, "Valuation"),
       [Rule({}, {"margin", "profit", "operatingmargin"}, {}, "Profitability & Margins")
            EXCEPT !.ifGrowth = "Growth"],
       Rule({}, {"growth", "cagr", "yoy"}, {}, "Growth"),
       Rule({}, {"cashflow", "free_cash_flow", "capex"}, {}, "Cash Flow"),
       Rule({}, {"cash", "debt", "equity", "bookvalue"}, {}, "Balance Sheet"),
       Rule({}, {"pershare"}, {}, "Per-Share"),
       Rule({}, {"ratio", "coverage"}, {}, "Leverage & Coverage"),
       Rule({}, {"recommendation"}, {}, "3rd Party Recommendation"),
       [Rule({}, {}, {}, "Price & Returns") EXCEPT !.default = TRUE] >>

\* Whether rule r matches the key k, whose lowercased form is lk.
RuleMatches(r, k, lk) ==
    \/ r.default
    \/ k \in r.exact
    \/ ContainsAny(lk, r.sub)
    \/ \E p \in r.pre : StartsWith(lk, p)

RuleAnswer(r, k) ==
    IF r.ifGrowth # r.section /\ Contains(lower(k), "growth") THEN r.ifGrowth
    ELSE r.section

\* The rules of the list that match k, and the answer of the first of them.
MatchingRules(k) ==
    LET lk == lower(k)
    IN  { i \in DOMAIN StatedRules : RuleMatches(StatedRules[i], k, lk) }
FirstMatch(k) == CHOOSE i \in MatchingRules(k) : \A j \in MatchingRules(k) : i <= j
FirstMatchSection(k) == RuleAnswer(StatedRules[FirstMatch(k)], k)

AllClassified ==
    cliSection # NotCalled /\ webSection # NotCalled /\ anaSection # NotCalled

(***************************************************************************)
(* C1: for every key, each of the three classifier variants (CLI, web,     *)
(* analysis) answers one section name, that name is in the eleven-section  *)
(* catalog, and a key that matches none of the rules (only the default)    *)
(* is classified "Price & Returns".                                        *)
(***************************************************************************)
C1_ClassifierTotal ==
    LET onlyDefault == MatchingRules(key) = {Len(StatedRules)}
    IN  \A section \in {cliSection, webSection, anaSection} \ {NotCalled} :
            /\ section \in Range(ordered_sections)
            /\ onlyDefault => section = "Price & Returns"

\* C1's case: a key no rule matches has been classified by all three variants.
C1_Witness ==
    /\ AllClassified
    /\ key # ""
    /\ MatchingRules(key) = {Len(StatedRules)}

(***************************************************************************)
(* C2: the CLI classifier answers the section of the first rule of the     *)
(* stated list that matches the key; a later rule never overrides an       *)
(* earlier matching one.                                                   *)
(***************************************************************************)
C2_CliFirstMatchWins ==
    cliSection # NotCalled => cliSection = FirstMatchSection(key)

\* C2's case: two rules with different answers match the key, and the CLI
\* classifier has answered (pershare: rule 6 through "pe", and rule 11).
C2_Witness ==
    /\ cliSection # NotCalled
    /\ {6, 11} \subseteq MatchingRules(key)
    /\ FirstMatch(key) = 6
    /\ cliSection = "Valuation"

\* The CLI answer with the recommendation section folded into "Price & Returns".
FoldRecommendation(section) ==
    IF section = "3rd Party Recommendation" THEN "Price & Returns" ELSE section

(***************************************************************************)
(* C3: the web classifier and the analysis classifier answer what the CLI  *)
(* classifier answers, except that every key the CLI classifier sends to   *)
(* "3rd Party Recommendation" they send to "Price & Returns".              *)
(***************************************************************************)
C3_VariantsAgreeButRecommendation ==
    cliSection # NotCalled =>
        /\ webSection # NotCalled => webSection = FoldRecommendation(cliSection)
        /\ anaSection # NotCalled => anaSection = FoldRecommendation(cliSection)

\* C3's case: the one divergence, on a key the CLI sends to the recommendation
\* section.
C3_Witness ==
    /\ AllClassified
    /\ cliSection = "3rd Party Recommendation"
    /\ webSection = "Price & Returns"
    /\ anaSection = "Price & Returns"

(***************************************************************************)
(* Specification of the groupers: serialised base maps are given (at most  *)
(* MaxStocks stocks, at most MaxKeys entries in all), and one grouper is   *)
(* called: the CLI, web or analysis grouper on one stock's map, or the     *)
(* comparison grouper on the list of maps.                                 *)
(***************************************************************************)

MaxKeys == 3
MaxStocks == 2

\* Keys of the maps besides `symbol`: a key of the Quote section, a headline key
\* and another key of one section, a key with a time window, and a key the CLI
\* classifier sends to the recommendation section.
GroupKeyPool ==
    { "quote_timestamp", "volume", "10DayAverageTradingVolume", "52WeekHigh",
      "recommendation" }

\* Formatted values, by position in the map.
SampleValues == << StrValue("$1.00"), StrValue("2.00%"), StrValue("3.00x") >>
SampleValue(i) == SampleValues[((i - 1) % Len(SampleValues)) + 1]

\* The serialised base maps with exactly n entries besides `symbol`: as_dict puts
\* `symbol` first, and a dict holds no key twice.
RECURSIVE MapsOfLen(_)
MapsOfLen(n) ==
    IF n = 0 THEN { << [k |-> "symbol", v |-> StrValue("AAPL")] >> }
    ELSE UNION { { Append(m, [k |-> k, v |-> SampleValue(n)]) :
                     k \in GroupKeyPool \ { m[i].k : i \in DOMAIN m } } :
                 m \in MapsOfLen(n - 1) }

MapsUpTo(n) == UNION { MapsOfLen(i) : i \in 0..n }

\* The lists of at most m maps with at most n entries besides `symbol` in all.
RECURSIVE StockLists(_, _)
StockLists(n, m) ==
    IF m = 0 THEN { << >> }
    ELSE { << >> } \cup
         UNION { { << d >> \o rest : rest \in StockLists(n - (Len(d) - 1), m - 1) } :
                 d \in MapsUpTo(n) }

InitGroup ==
    /\ stocks \in StockLists(MaxKeys, MaxStocks)
    /\ grouper = NoGrouper
    /\ grouped = << >>
    /\ IdleClassify
    /\ IdleSnapshot
    /\ IdleRecommendation
    /\ IdleFormat
    /\ IdleSortKey
    /\ IdleAnalyze
    /\ IdleIndex

GroupCli(i) ==
    /\ grouper = NoGrouper
    /\ grouper' = [variant |-> "cli", stock |-> i]
    /\ grouped' = group_indicators_cli(stocks[i])
    /\ UNCHANGED <<stocks, classifyVars, snapshotVars, recommendationVars, formatVars, sortVars,
                   analyzeVars, indexVars>>

GroupWeb(i) ==
    /\ grouper = NoGrouper
    /\ grouper' = [variant |-> "web", stock |-> i]
    /\ grouped' = group_indicators_web(stocks[i])
    /\ UNCHANGED <<stocks, classifyVars, snapshotVars, recommendationVars, formatVars, sortVars,
                   analyzeVars, indexVars>>

GroupAnalysis(i) ==
    /\ grouper = NoGrouper
    /\ grouper' = [variant |-> "analysis", stock |-> i]
    /\ grouped' = group_indicators_analysis(stocks[i])
    /\ UNCHANGED <<stocks, classifyVars, snapshotVars, recommendationVars, formatVars, sortVars,
                   analyzeVars, indexVars>>

\* index: the stocks whose map holds an entry besides `symbol`.
valid_stocks(maps) == SelectSeq(maps, LAMBDA data : Len(data) > 1)

\* The comparison grouper is called when there is a valid stock.
GroupComparison ==
    /\ grouper = NoGrouper
    /\ valid_stocks(stocks) # << >>
    /\ grouper' = [variant |-> "comparison", stock |-> 0]
    /\ grouped' = group_indicator_keys(valid_stocks(stocks))
    /\ UNCHANGED <<stocks, classifyVars, snapshotVars, recommendationVars, formatVars, sortVars,
                   analyzeVars, indexVars>>

NextGroup ==
    \/ \E i \in DOMAIN stocks : GroupCli(i)
    \/ \E i \in DOMAIN stocks : GroupWeb(i)
    \/ \E i \in DOMAIN stocks : GroupAnalysis(i)
    \/ GroupComparison

SpecGroup == InitGroup /\ [][NextGroup]_vars

\* The keys of the map (of the maps, for the comparison) the grouper was called on.
GroupedInputKeys ==
    IF grouper.variant = "comparison" THEN Range(KeysOfStocks(valid_stocks(stocks)))
    ELSE { stocks[grouper.stock][j].k : j \in DOMAIN stocks[grouper.stock] }

\* The sort key the called grouper orders its rows by.
GrouperSortKey(k) ==
    CASE grouper.variant = "cli" -> sort_key_cli(k)
      [] grouper.variant = "analysis" -> sort_key_analysis(k)
      [] OTHER -> sort_key_web(k)

\* The position of a section in the catalog.
CatalogIndex(section) == CHOOSE i \in DOMAIN ordered_sections : ordered_sections[i] = section

\* The places <<group, row>> of the grouped result that hold the key k.
PlacesOf(k) ==
    { p \in UNION { { <<g, r>> : r \in DOMAIN grouped[g].rows } : g \in DOMAIN grouped } :
        grouped[p[1]].rows[p[2]].k = k }

(***************************************************************************)
(* C4: for any indicator map, in every grouper (CLI, web single, web       *)
(* comparison, analysis): the sections come in the catalog order and none  *)
(* is empty; every key other than `symbol` is in exactly one section       *)
(* exactly once, and no other key is; the entries of a section are in      *)
(* non-decreasing sort-key order.                                          *)
(***************************************************************************)
C4_GroupingKeepsEveryKeyInOrder ==
    grouper # NoGrouper =>
        /\ \A g \in DOMAIN grouped :
              /\ grouped[g].section \in Range(ordered_sections)
              /\ grouped[g].rows # << >>
              /\ g > 1 => CatalogIndex(grouped[g - 1].section) < CatalogIndex(grouped[g].section)
              /\ \A r \in 1..(Len(grouped[g].rows) - 1) :
                    SortKeyLeq(GrouperSortKey(grouped[g].rows[r].k),
                               GrouperSortKey(grouped[g].rows[r + 1].k))
        /\ \A k \in GroupedInputKeys \ {"symbol"} : Cardinality(PlacesOf(k)) = 1
        /\ \A g \in DOMAIN grouped : \A r \in DOMAIN grouped[g].rows :
              grouped[g].rows[r].k \in GroupedInputKeys \ {"symbol"}

\* C4's case: the web single grouper, whose section list has ten entries, was
\* called on a map holding `symbol`, a recommendation key and a windowed price
\* key, given in an order the sort changes.
C4_Witness ==
    /\ grouper.variant = "web"
    /\ {"symbol", "recommendation", "52WeekHigh"} \subseteq GroupedInputKeys
    /\ Len(grouped) = 1
    /\ Len(grouped[1].rows) = 2
    /\ stocks[grouper.stock][2].k = "recommendation"
    /\ grouped[1].rows[1].k = "52WeekHigh"

(***************************************************************************)
(* Specification of a query: the provider's answers are given (at most     *)
(* MaxItems of the items of ProviderItems are present), the snapshot is    *)
(* queried, or the base indicators are built by a fetcher over a client    *)
(* that also offers recommendation_trends; then the snapshot or its base   *)
(* is serialised, and the serialised base is grouped.                      *)
(***************************************************************************)

MaxItems == 3

SampleSymbol == StrValue("AAPL")

SampleQuote ==
    << [k |-> "c", v |-> FloatValue(1895, 10)], [k |-> "h", v |-> FloatValue(1911, 10)],
       [k |-> "l", v |-> IntValue(188)], [k |-> "o", v |-> StrValue("188.75")],
       [k |-> "pc", v |-> FloatValue(18725, 100)], [k |-> "t", v |-> IntValue(1700000000)],
       [k |-> "v", v |-> IntValue(12345)] >>

SampleRecommendations ==
    << DictValue(<< [k |-> "period", v |-> StrValue("2024-03-31")],
                    [k |-> "strongBuy", v |-> IntValue(5)], [k |-> "buy", v |-> IntValue(10)],
                    [k |-> "hold", v |-> IntValue(2)], [k |-> "sell", v |-> IntValue(0)],
                    [k |-> "strongSell", v |-> IntValue(1)] >>),
       DictValue(<< [k |-> "period", v |-> StrValue("2024-06-30")],
                    [k |-> "strongBuy", v |-> IntValue(20)], [k |-> "buy", v |-> IntValue(3)],
                    [k |-> "hold", v |-> IntValue(1)], [k |-> "sell", v |-> IntValue(0)],
                    [k |-> "strongSell", v |-> IntValue(0)] >>) >>

\* What the provider may answer: the quote, the recommendation rows, the market
\* capitalisation of the profile (in millions), and metrics of the financials.
ProviderItems ==
    << [part |-> "quote", key |-> "", values |-> { DictValue(SampleQuote) }],
       [part |-> "recommendations", key |-> "", values |-> { ListValue(SampleRecommendations) }],
       [part |-> "profile", key |-> "marketCapitalization",
        values |-> { IntValue(0), IntValue(3000), StrValue("N/A") }],
       [part |-> "metric", key |-> "totalDebt", values |-> { IntValue(100), StrValue("N/A") }],
       [part |-> "metric", key |-> "cashAndCashEquivalents",
        values |-> { IntValue(0), IntValue(50) }],
       [part |-> "metric", key |-> "capitalExpenditure", values |-> { IntValue(120) }],
       [part |-> "metric", key |-> "operatingCashFlow",
        values |-> { IntValue(500), IntValue(0) }],
       [part |-> "metric", key |-> "revenueTTM",
        values |-> { IntValue(2000), IntValue(0), BigInt }],
       [part |-> "metric", key |-> "netIncome", values |-> { IntValue(400), IntValue(0) }],
       [part |-> "metric", key |-> "beta",
        values |-> { FloatValue(12, 10), StrValue("N/A") }] >>

\* The selections of at most `budget` items from the i-th item on, each with one
\* of its values.
RECURSIVE Selections(_, _)
Selections(i, budget) ==
    IF i > Len(ProviderItems) \/ budget = 0 THEN { << >> }
    ELSE Selections(i + 1, budget)
         \cup { << [part |-> ProviderItems[i].part, k |-> ProviderItems[i].key, v |-> v] >>
                \o rest : v \in ProviderItems[i].values, rest \in Selections(i + 1, budget - 1) }

\* The answers of the client for a selection.  A missing quote, profile or
\* financials answer is the empty dict, missing rows are the empty list.
FetchedOf(selection) ==
    LET whole(part, default) ==
            LET s == SelectSeq(selection, LAMBDA e : e.part = part)
            IN  IF s = << >> THEN default ELSE s[1].v.items
        entries(part) ==
            LET s == SelectSeq(selection, LAMBDA e : e.part = part)
            IN  [i \in DOMAIN s |-> [k |-> s[i].k, v |-> s[i].v]]
    IN  [quote |-> whole("quote", << >>),
         profile |-> entries("profile"),
         financials |-> IF entries("metric") = << >> THEN << >>
                        ELSE << [k |-> "metric", v |-> DictValue(entries("metric"))] >>,
         recommendations |-> whole("recommendations", << >>)]

InitSnapshot ==
    /\ fetched \in { FetchedOf(s) : s \in Selections(1, MaxItems) }
    /\ queried = NotCalledYet
    /\ built = NotCalledYet
    /\ body = NotCalledYet
    /\ payload = NotCalledYet
    /\ IdleClassify
    /\ IdleGroup
    /\ IdleRecommendation
    /\ IdleFormat
    /\ IdleSortKey
    /\ IdleAnalyze
    /\ IdleIndex

\* query_stock_indicators(symbol, api_key=..., include_analysis=...)
QueryStockIndicators(resolved_key, include_analysis) ==
    /\ queried = NotCalledYet /\ built = NotCalledYet
    /\ queried' = query_stock_indicators(fetched, SampleSymbol, resolved_key, include_analysis)
    /\ UNCHANGED <<fetched, built, body, payload, classifyVars, groupVars, recommendationVars,
                   formatVars, sortVars, analyzeVars, indexVars>>

\* FinnhubIndicatorFetcher(client).build_base_indicators(symbol, include_analysis=...)
\* with a client of the class market_agent/datasources/finnhub_client.py.
BuildBaseIndicators(include_analysis) ==
    /\ queried = NotCalledYet /\ built = NotCalledYet
    /\ built' = build_base_indicators(LegacyFinnhubClient, fetched, SampleSymbol,
                                      include_analysis)
    /\ UNCHANGED <<fetched, queried, body, payload, classifyVars, groupVars, recommendationVars,
                   formatVars, sortVars, analyzeVars, indexVars>>

\* What a serialisation leaves: the dict, or the exception formatting raised.
Serialised(result) ==
    IF IsRaise(result) THEN Raised(result.exc, "format") ELSE Returned(result)

\* snapshot.as_dict()
SnapshotAsDict ==
    /\ queried.status = "returned"
    /\ payload = NotCalledYet /\ body = NotCalledYet
    /\ payload' = Serialised(StockIndicatorSnapshot_as_dict(queried.value))
    /\ UNCHANGED <<fetched, queried, built, body, classifyVars, groupVars, recommendationVars,
                   formatVars, sortVars, analyzeVars, indexVars>>

\* The base indicators at hand: the snapshot's, or the ones built directly.
BaseAtHand == IF queried.status = "returned" THEN queried.value.base ELSE built.value

\* base.as_dict(): the map the frontends and the section analysis hand to their
\* groupers.
BaseAsDict ==
    /\ queried.status = "returned" \/ built.status = "returned"
    /\ payload = NotCalledYet /\ body = NotCalledYet
    /\ body' = Serialised(StockBaseIndicators_as_dict(BaseAtHand))
    /\ stocks' = IF body'.status = "returned" THEN << body'.value.items >> ELSE stocks
    /\ UNCHANGED <<fetched, queried, built, payload, classifyVars, grouper, grouped,
                   recommendationVars, formatVars, sortVars, analyzeVars, indexVars>>

NextSnapshot ==
    \/ \E resolved_key \in BOOLEAN, include_analysis \in BOOLEAN :
          QueryStockIndicators(resolved_key, include_analysis)
    \/ \E include_analysis \in BOOLEAN : BuildBaseIndicators(include_analysis)
    \/ SnapshotAsDict
    \/ BaseAsDict
    \/ \E i \in DOMAIN stocks : GroupCli(i)
    \/ \E i \in DOMAIN stocks : GroupWeb(i)
    \/ \E i \in DOMAIN stocks : GroupAnalysis(i)
    \/ GroupComparison

SpecSnapshot == InitSnapshot /\ [][NextSnapshot]_vars

\* Whether base indicators are at hand, and the serialised base map.
HasBase == queried.status = "returned" \/ built.status = "returned"
BodyItems == body.value.items

(***************************************************************************)
(* C5: the serialised base map holds the key `symbol` exactly once, as its *)
(* first entry, with the symbol of the snapshot as value; the serialised   *)
(* snapshot holds `symbol` as its first top-level entry and the base map,  *)
(* which again starts with `symbol`, under `base`; no row of any section   *)
(* group is made from the key `symbol`.                                    *)
(***************************************************************************)
C5_SymbolHeadsBodyAndIsNotGrouped ==
    /\ body.status = "returned" =>
          /\ BodyItems # << >>
          /\ BodyItems[1] = [k |-> "symbol", v |-> SampleSymbol]
          /\ \A i \in 2..Len(BodyItems) : BodyItems[i].k # "symbol"
    /\ payload.status = "returned" =>
          /\ payload.value.items[1] = [k |-> "symbol", v |-> SampleSymbol]
          /\ payload.value.items[2].k = "base"
          /\ payload.value.items[2].v.items # << >>
          /\ payload.value.items[2].v.items[1] = [k |-> "symbol", v |-> SampleSymbol]
          /\ \A i \in 2..Len(payload.value.items) : payload.value.items[i].k # "symbol"
    /\ \A g \in DOMAIN grouped : \A r \in DOMAIN grouped[g].rows :
          grouped[g].rows[r].k # "symbol"

\* C5's case: a base map with indicators was serialised and then grouped by
\* the CLI grouper.
C5_Witness ==
    /\ body.status = "returned"
    /\ Len(BodyItems) > 2
    /\ grouper.variant = "cli"
    /\ grouped # << >>

\* C5 as stated: `symbol` is in no serialised indicator body and in no section
\* group.
C5_SymbolNeverInBody ==
    /\ body.status = "returned" => \A i \in DOMAIN BodyItems : BodyItems[i].k # "symbol"
    /\ payload.status = "returned" =>
          /\ Has(payload.value.items, "symbol")
          /\ ~Has(Get(payload.value.items, "base").items, "symbol")
    /\ \A g \in DOMAIN grouped : \A r \in DOMAIN grouped[g].rows :
          grouped[g].rows[r].k # "symbol"

\* ev = market_cap + total_debt - cash, on exact fractions.
IsSumLessCash(ev, market_cap, total_debt, cash) ==
    ev.num * market_cap.den * total_debt.den * cash.den
        = ev.den * (market_cap.num * total_debt.den * cash.den
                    + total_debt.num * market_cap.den * cash.den
                    - cash.num * market_cap.den * total_debt.den)

\* Market cap, total debt and cash were all obtained as numbers.
AllThreeObtained ==
    /\ BaseAtHand.market_cap # None
    /\ BaseAtHand.total_debt # None
    /\ BaseAtHand.cash_and_equivalents # None

(***************************************************************************)
(* C7: enterprise_value is present, in the base indicators and in their    *)
(* serialised map, exactly when market cap, total debt and cash and        *)
(* equivalents were all obtained as numbers (zero included); it then       *)
(* equals market_cap + total_debt - cash_and_equivalents.                  *)
(***************************************************************************)
C7_EnterpriseValueNeedsAllThree ==
    HasBase =>
        /\ (BaseAtHand.enterprise_value # None) <=> AllThreeObtained
        /\ AllThreeObtained =>
              IsSumLessCash(BaseAtHand.enterprise_value, BaseAtHand.market_cap,
                            BaseAtHand.total_debt, BaseAtHand.cash_and_equivalents)
        /\ body.status = "returned" =>
              (Has(BodyItems, "enterprise_value") <=> AllThreeObtained)

\* C7's case: the provider gave a market cap of 3000, a total debt of 100 and
\* a cash figure of zero, and the base was serialised.
C7_Witness ==
    /\ Get(fetched.profile, "marketCapitalization") = IntValue(3000)
    /\ Get(metrics_of(fetched.financials), "totalDebt") = IntValue(100)
    /\ Get(metrics_of(fetched.financials), "cashAndCashEquivalents") = IntValue(0)
    /\ body.status = "returned"
    /\ BaseAtHand.enterprise_value = FloatValue(3100, 1)
    /\ Get(BodyItems, "enterprise_value") = StrValue("$3.10B")

\* The provider metrics of C8: operating cash flow 500, capex 120, revenue 2000.
C8_Metrics ==
    /\ Get(metrics_of(fetched.financials), "operatingCashFlow") = IntValue(500)
    /\ Get(metrics_of(fetched.financials), "capitalExpenditure") = IntValue(120)
    /\ Get(metrics_of(fetched.financials), "revenueTTM") = IntValue(2000)

(***************************************************************************)
(* C8: with operating cash flow 500, capex 120 and revenue 2000 in the     *)
(* provider metrics, free_cash_flow is 380 and the serialised fcf_margin   *)
(* is "19.00%".                                                            *)
(***************************************************************************)
C8_FcfMarginIsNineteenPercent ==
    C8_Metrics =>
        /\ HasBase => BaseAtHand.free_cash_flow = FloatValue(380, 1)
        /\ body.status = "returned" => Get(BodyItems, "fcf_margin") = StrValue("19.00%")

\* The revenue and the net income build_base_indicators obtains.
RevenueObtained ==
    metric_float(metrics_of(fetched.financials),
                 << "revenueTTM", "totalRevenue", "totalRevenueTTM" >>)
NetIncomeObtained ==
    metric_float(metrics_of(fetched.financials),
                 << "netIncome", "netIncomeTTM", "netIncomeCommonStockholders",
                    "netIncomeCommon" >>)
PresentAndNotZero(value) == value # None /\ value.num # 0

\* The outcome of the build, through the query or directly.
BuildOutcome == IF queried # NotCalledYet THEN queried ELSE built

(***************************************************************************)
(* C9: the step that derives the fields never raises and never divides by  *)
(* zero; fcf_margin is present, in the base indicators and in their        *)
(* serialised map, exactly when free cash flow is present and the revenue  *)
(* is present and not zero, and cash_conversion exactly when free cash     *)
(* flow is present and the net income is present and not zero.             *)
(***************************************************************************)
C9_RatiosNeedNonZeroDenominator ==
    /\ BuildOutcome.status = "raised" =>
          BuildOutcome.at # "derive" /\ BuildOutcome.exc # "ZeroDivisionError"
    /\ HasBase =>
          /\ (BaseAtHand.fcf_margin # None)
                <=> (BaseAtHand.free_cash_flow # None /\ PresentAndNotZero(RevenueObtained))
          /\ (BaseAtHand.cash_conversion # None)
                <=> (BaseAtHand.free_cash_flow # None /\ PresentAndNotZero(NetIncomeObtained))
          /\ body.status = "returned" =>
                /\ Has(BodyItems, "fcf_margin") <=> (BaseAtHand.fcf_margin # None)
                /\ Has(BodyItems, "cash_conversion") <=> (BaseAtHand.cash_conversion # None)

\* C9's case: free cash flow is present and the revenue is zero; the build
\* returned and the serialised map holds free_cash_flow without fcf_margin.
C9_Witness ==
    /\ HasBase
    /\ BaseAtHand.free_cash_flow # None
    /\ RevenueObtained = FloatValue(0, 1)
    /\ body.status = "returned"
    /\ Has(BodyItems, "free_cash_flow")
    /\ ~Has(BodyItems, "fcf_margin")

(***************************************************************************)
(* Specification of the serialisation of a base indicator record: a record *)
(* is given, with some of its fixed fields set and at most MaxEntries      *)
(* extra entries, some of them under the key of a fixed field and some of  *)
(* them None; then it is serialised.                                       *)
(***************************************************************************)

MaxEntries == 2

\* A record whose indicators are all None.
BlankBase ==
    [symbol |-> SampleSymbol, open_price |-> None, high_price |-> None, low_price |-> None,
     close_price |-> None, volume |-> None, market_cap |-> None, enterprise_value |-> None,
     beta |-> None, short_interest_pct_float |-> None, cash_and_equivalents |-> None,
     total_debt |-> None, capex |-> None, operating_cash_flow |-> None,
     free_cash_flow |-> None, fcf_margin |-> None, cash_conversion |-> None,
     extra |-> << >>]

ExtraKeyPool == {"volume", "beta", "peAnnual", "previous_close"}
ExtraValuePool == {None, StrValue("N/A"), FloatValue(5, 2)}

\* The extras of n entries, under distinct keys.
RECURSIVE ExtrasOfLen(_)
ExtrasOfLen(n) ==
    IF n = 0 THEN { << >> }
    ELSE UNION { { Append(extra, [k |-> k, v |-> v]) :
                     k \in ExtraKeyPool \ { extra[i].k : i \in DOMAIN extra },
                     v \in ExtraValuePool } :
                 extra \in ExtrasOfLen(n - 1) }

SampleBases ==
    { [BlankBase EXCEPT !.volume = volume, !.beta = beta, !.market_cap = market_cap,
                        !.extra = extra] :
        volume \in {None, IntValue(12345)},
        beta \in {None, FloatValue(12, 10)},
        market_cap \in {None, FloatValue(3000, 1)},
        extra \in UNION { ExtrasOfLen(n) : n \in 0..MaxEntries } }

InitAsDict ==
    /\ built \in { Returned(base) : base \in SampleBases }
    /\ fetched = NothingFetched
    /\ queried = NotCalledYet
    /\ body = NotCalledYet
    /\ payload = NotCalledYet
    /\ IdleClassify
    /\ IdleGroup
    /\ IdleRecommendation
    /\ IdleFormat
    /\ IdleSortKey
    /\ IdleAnalyze
    /\ IdleIndex

NextAsDict == BaseAsDict

SpecAsDict == InitAsDict /\ [][NextAsDict]_vars

\* The raw value as_dict serialises under a key: the extra entry under that
\* key if there is one, else the fixed field of that name.
MergedRaw(base, k) ==
    IF Has(base.extra, k) THEN Get(base.extra, k)
    ELSE IF k \in Range(fixed_field_keys) THEN base[k]
    ELSE None

KeysOfBase(base) == Range(fixed_field_keys) \cup { base.extra[i].k : i \in DOMAIN base.extra }

(***************************************************************************)
(* C6: for any base indicator record, a key is in the serialised base map  *)
(* exactly when the raw value serialised under it is not None, the raw     *)
(* value being the extra entry under that key if there is one and else the *)
(* fixed field; and no value of the serialised map is None.                *)
(***************************************************************************)
C6_MergedNoneIsDropped ==
    (built.status = "returned" /\ body.status = "returned") =>
        /\ \A k \in KeysOfBase(built.value) :
              Has(BodyItems, k) <=> (MergedRaw(built.value, k) # None)
        /\ \A i \in DOMAIN BodyItems :
              BodyItems[i].v # None /\ BodyItems[i].k \in KeysOfBase(built.value)

\* C6's case: the volume field is set and an extra entry `volume` is None; the
\* beta field is None and an extra entry `beta` is not.  The map holds beta and
\* not volume.
C6_Witness ==
    /\ built.status = "returned"
    /\ built.value.volume = IntValue(12345)
    /\ built.value.beta = None
    /\ Has(built.value.extra, "volume") /\ Get(built.value.extra, "volume") = None
    /\ Get(built.value.extra, "beta") = StrValue("N/A")
    /\ body.status = "returned"
    /\ ~Has(BodyItems, "volume")
    /\ Get(BodyItems, "beta") = StrValue("N/A")

\* C6 as stated: the key of a field that is None, and the key of an extra entry
\* that is None, is not in the serialised map, and no value of the map is None.
C6_NoneFieldOrEntryIsDropped ==
    (built.status = "returned" /\ body.status = "returned") =>
        /\ \A k \in Range(fixed_field_keys) : built.value[k] = None => ~Has(BodyItems, k)
        /\ \A i \in DOMAIN built.value.extra :
              built.value.extra[i].v = None => ~Has(BodyItems, built.value.extra[i].k)
        /\ \A i \in DOMAIN BodyItems : BodyItems[i].v # None

(***************************************************************************)
(* Specification of the recommendation summary: at most MaxRows rows are   *)
(* given, in any order, with periods that differ, tie, are None or are     *)
(* missing, and with counts that tie, are numeric strings, are not numeric *)
(* or are None; then the summary and the counts are taken as               *)
(* build_base_indicators takes them.                                       *)
(***************************************************************************)

MaxRows == 3

SampleRows ==
    { DictValue(<< [k |-> "period", v |-> StrValue("2024-03-31")],
                   [k |-> "strongBuy", v |-> IntValue(5)], [k |-> "buy", v |-> IntValue(10)] >>),
      DictValue(<< [k |-> "period", v |-> StrValue("2024-06-30")],
                   [k |-> "strongBuy", v |-> IntValue(20)], [k |-> "buy", v |-> IntValue(3)] >>),
      DictValue(<< [k |-> "period", v |-> StrValue("2024-06-30")],
                   [k |-> "hold", v |-> IntValue(7)], [k |-> "sell", v |-> StrValue("n/a")] >>),
      DictValue(<< [k |-> "period", v |-> None], [k |-> "sell", v |-> IntValue(4)] >>),
      DictValue(<< [k |-> "period", v |-> StrValue("2024-09-30")],
                   [k |-> "hold", v |-> IntValue(8)], [k |-> "buy", v |-> StrValue("8")],
                   [k |-> "strongSell", v |-> IntValue(2)] >>),
      DictValue(<< [k |-> "period", v |-> StrValue("2024-12-31")],
                   [k |-> "buy", v |-> StrValue("n/a")], [k |-> "hold", v |-> None] >>),
      DictValue(<< [k |-> "strongSell", v |-> IntValue(9)] >>) }

RECURSIVE RowsOfLen(_)
RowsOfLen(n) ==
    IF n = 0 THEN { << >> }
    ELSE { Append(rows, row) : rows \in RowsOfLen(n - 1), row \in SampleRows }

InitRecommendation ==
    /\ trendRows \in UNION { RowsOfLen(n) : n \in 0..MaxRows }
    /\ summary = NotCalledYet
    /\ IdleClassify
    /\ IdleGroup
    /\ IdleSnapshot
    /\ IdleFormat
    /\ IdleSortKey
    /\ IdleAnalyze
    /\ IdleIndex

\* The recommendation part of build_base_indicators (lines 108-123): the
\* summary, and the counts when there is a summary.
SummariseRecommendation ==
    /\ summary = NotCalledYet
    /\ summary' = [latest_row |-> latest_row(trendRows),
                   recommendation |-> summarise_recommendation(trendRows),
                   extra |-> SetRecommendation(<< >>, summarise_recommendation(trendRows),
                                               latest_row(trendRows))]
    /\ UNCHANGED <<trendRows, classifyVars, groupVars, snapshotVars, formatVars, sortVars,
                   analyzeVars, indexVars>>

NextRecommendation == SummariseRecommendation

SpecRecommendation == InitRecommendation /\ [][NextRecommendation]_vars

\* The orders in which the rows can be supplied.
Orders(rows) ==
    { [i \in DOMAIN rows |-> rows[p[i]]] :
        p \in { q \in [DOMAIN rows -> DOMAIN rows] : \A i, j \in DOMAIN rows :
                                                        q[i] = q[j] => i = j } }

(***************************************************************************)
(* C10: for any list of recommendation rows, the row the summary and the   *)
(* counts are taken from is one of the rows, no row has a period string    *)
(* that is larger than its period string, and in whatever order the rows   *)
(* are supplied the row taken has that same period string.                 *)
(***************************************************************************)
C10_LatestRowHasLargestPeriod ==
    (summary # NotCalledYet /\ trendRows # << >>) =>
        /\ summary.latest_row \in Range(trendRows)
        /\ \A row \in Range(trendRows) :
              ~StrLess(PeriodOf(summary.latest_row), PeriodOf(row))
        /\ \A rows \in Orders(trendRows) :
              PeriodOf(latest_row(rows)) = PeriodOf(summary.latest_row)
        /\ summary.recommendation = summarise_recommendation(<< summary.latest_row >>)
        /\ Has(summary.extra, "recommendation_counts") =>
              Get(summary.extra, "recommendation_counts")
                  = recommendation_counts(summary.latest_row)

\* C10's case: the row with the largest period is supplied first, then a row
\* without period and an older row; the summary and the counts are those of
\* the first row.
C10_Witness ==
    /\ Len(trendRows) = 3
    /\ PeriodOf(trendRows[1]) = "2024-06-30"
    /\ PeriodOf(trendRows[2]) = ""
    /\ PeriodOf(trendRows[3]) = "2024-03-31"
    /\ summary # NotCalledYet
    /\ summary.latest_row = trendRows[1]
    /\ summary.recommendation = StrValue("Strong Buy")
    /\ Get(summary.extra, "recommendation_counts")
          = DictValue(<< [k |-> "strongBuy", v |-> IntValue(20)],
                         [k |-> "buy", v |-> IntValue(3)] >>)

\* The count of the i-th bucket in a row as a number, None when the row has no
\* such count or the count is not numeric.
NumericCount(row, i) ==
    IF Get(row.items, buckets[i].key) = None THEN None
    ELSE to_optional_float(Get(row.items, buckets[i].key))

NumericBuckets(row) == { i \in DOMAIN buckets : NumericCount(row, i) # None }

\* The buckets whose count no other bucket's count exceeds.
HighestBuckets(row) ==
    { i \in NumericBuckets(row) :
        \A j \in NumericBuckets(row) : ~FloatLess(NumericCount(row, i), NumericCount(row, j)) }

(***************************************************************************)
(* C11: the recommendation summary is the label of the bucket that is      *)
(* earliest, in the order Strong Buy, Buy, Hold, Sell, Strong Sell, among  *)
(* the buckets with the highest numeric count in the latest row; it is     *)
(* None when there is no row or the latest row has no numeric count.       *)
(***************************************************************************)
C11_SummaryIsEarliestHighestBucket ==
    summary # NotCalledYet =>
        IF summary.latest_row = None \/ NumericBuckets(summary.latest_row) = {}
        THEN summary.recommendation = None
        ELSE \E i \in HighestBuckets(summary.latest_row) :
                /\ \A j \in HighestBuckets(summary.latest_row) : i <= j
                /\ summary.recommendation = StrValue(buckets[i].label)

\* C11's case: the latest row holds hold 8 before buy "8", a tie for the
\* highest count, and the summary is Buy, the earlier bucket of the two.
C11_Witness ==
    /\ summary # NotCalledYet
    /\ summary.latest_row # None
    /\ PeriodOf(summary.latest_row) = "2024-09-30"
    /\ HighestBuckets(summary.latest_row) = {2, 3}
    /\ summary.recommendation = StrValue("Buy")

\* A provider value that is given and that float() does not accept.
NotConvertible(value) == value # None /\ IsRaise(float(value))

(***************************************************************************)
(* C12: for every provider value that cannot be converted to a number,     *)
(* building the base indicators does not raise while it coerces the        *)
(* provider's values, and the indicator key of that value (market_cap for  *)
(* the profile's market capitalisation, beta and total_debt for the        *)
(* metrics of those families) is absent from the serialised base map.      *)
(***************************************************************************)
C12_NotConvertibleIsAbsentAndNeverRaises ==
    /\ BuildOutcome.status = "raised" => BuildOutcome.at # "coerce"
    /\ body.status = "returned" =>
          /\ NotConvertible(Get(fetched.profile, "marketCapitalization"))
                => ~Has(BodyItems, "market_cap")
          /\ NotConvertible(Get(metrics_of(fetched.financials), "totalDebt"))
                => ~Has(BodyItems, "total_debt")
          /\ NotConvertible(Get(metrics_of(fetched.financials), "beta"))
                => ~Has(BodyItems, "beta")

(***************************************************************************)
(* Specification of the value formatter: a key and a value are given, and  *)
(* _format_base_value is called on them.  The keys are the keys the        *)
(* pipeline produces and every concatenation of at most MaxFragments       *)
(* fragments (a fragment for each keyword rule).  The values are numbers   *)
(* at and around the scaling thresholds, numeric and non-numeric strings,  *)
(* a nested mapping, an integer beyond the range of a double, and None.    *)
(* The values of large magnitude are given to the keys of amounts, of the  *)
(* volume and of the timestamp.                                            *)
(***************************************************************************)

FormatFragments ==
    { "x", "eps", "Growth", "PerShare", "pe", "WeekHigh", "Coverage",
      "marketCapitalization", "Return", "Ev/" }

RECURSIVE FormatConcatenations(_)
FormatConcatenations(n) ==
    IF n = 0 THEN {""}
    ELSE LET shorter == FormatConcatenations(n - 1)
         IN  shorter \cup { p \o f : p \in shorter, f \in FormatFragments }

FormatKeys == ProducedKeys \cup FormatConcatenations(MaxFragments)

FormatValues ==
    { None, FloatValue(0, 1), FloatValue(125, 100), FloatValue(-5, 2), FloatValue(1999, 2),
      FloatValue(1250, 1), IntValue(42), IntValue(1000), StrValue("12.5"), StrValue("N/A"),
      DictValue(<< [k |-> "sma50", v |-> FloatValue(1895, 10)] >>), BigInt }

LargeValues ==
    { IntValue(1000000), IntValue(1250000), FloatValue(-1250000, 1),
      FloatValue(1250000000, 1), IntValue(1700000000) }

MagnitudeKeys ==
    compact_currency_keys \cup volume_keys \cup {"quote_timestamp", "marketCapitalization"}

InitFormat ==
    /\ \/ fmtKey \in FormatKeys /\ fmtValue \in FormatValues
       \/ fmtKey \in MagnitudeKeys /\ fmtValue \in LargeValues
    /\ fmtResult = NotCalledYet
    /\ IdleClassify
    /\ IdleGroup
    /\ IdleSnapshot
    /\ IdleRecommendation
    /\ IdleSortKey
    /\ IdleAnalyze
    /\ IdleIndex

\* _format_base_value(key, value)
FormatBaseValue ==
    /\ fmtResult = NotCalledYet
    /\ fmtResult' = Serialised(format_base_value(fmtKey, fmtValue))
    /\ UNCHANGED <<fmtKey, fmtValue, classifyVars, groupVars, snapshotVars, recommendationVars,
                   sortVars, analyzeVars, indexVars>>

NextFormat == FormatBaseValue

SpecFormat == InitFormat /\ [][NextFormat]_vars

(***************************************************************************)
(* The formatter's policy as a list of rules, in the order of precedence:  *)
(* the exact-key overrides, the fixed exact-key sets, the keyword rules,   *)
(* the default.  Exact rules read the raw key, the others the lowercased   *)
(* key.                                                                    *)
(***************************************************************************)

FormatRule(exact, sub, pre, kind) ==
    [exact |-> exact, sub |-> sub, pre |-> pre, kind |-> kind, default |-> FALSE]

StatedFormatRules ==
    << FormatRule({"quote_timestamp"}, {}, {}, "timestamp"),
       FormatRule({"rsi"}, {}, {}, "percent"),
       FormatRule({"macd"}, {}, {}, "currency"),
       FormatRule({"open_price", "high_price", "low_price", "close_price",
                   "previous_close"}, {}, {}, "currency"),
       FormatRule({"volume"}, {}, {}, "shares"),
       FormatRule({"short_interest_pct_float", "fcf_margin", "cash_conversion"}, {}, {},
                  "percent"),
       FormatRule({"beta"}, {}, {}, "ratio"),
       FormatRule({"market_cap", "enterprise_value", "cash_and_equivalents", "total_debt",
                   "capex", "operating_cash_flow", "free_cash_flow"}, {}, {}, "compact"),
       FormatRule({"10DayAverageTradingVolume", "3MonthAverageTradingVolume"}, {}, {},
                  "shares from millions"),
       FormatRule({}, {"marketcapitalization"}, {}, "compact"),
       FormatRule({}, {"weekhigh", "weeklow"}, {}, "currency"),
       FormatRule({}, {"pershare", "eps", "netincomeemployee"}, {}, "currency"),
       FormatRule({}, {"currentratio", "debt/equity", "totaldebt/totalequity", "ev/",
                       "coverage"}, {"pe"}, "ratio"),
       FormatRule({}, {"return", "growth", "margin", "cagr", "yoy", "payout",
                       "pricerelativetosp500", "std"}, {}, "percent"),
       [FormatRule({}, {}, {}, "default") EXCEPT !.default = TRUE] >>

MatchingFormatRules(k) ==
    { i \in DOMAIN StatedFormatRules : RuleMatches(StatedFormatRules[i], k, lower(k)) }

FirstFormatMatch(k) ==
    CHOOSE i \in MatchingFormatRules(k) : \A j \in MatchingFormatRules(k) : i <= j

StatedKind(k) == StatedFormatRules[FirstFormatMatch(k)].kind

\* The rendering of each kind.
KindFormat(kind, value) ==
    CASE kind = "timestamp" -> format_timestamp(value)
      [] kind = "percent" -> format_percent(value)
      [] kind = "currency" -> format_currency(value)
      [] kind = "shares" -> format_shares(value)
      [] kind = "shares from millions" -> format_shares_from_millions(value)
      [] kind = "ratio" -> format_ratio(value)
      [] kind = "compact" -> format_compact_currency(value)
      [] OTHER -> IF value.t = "float" THEN StrValue(Fmt2(value)) ELSE value

(***************************************************************************)
(* C13: for every key and every value that is not None, the formatter      *)
(* renders the value in the kind of the first rule that matches the key,   *)
(* in the order: exact-key overrides, fixed exact-key sets, keyword rules  *)
(* in their order, default.                                                *)
(***************************************************************************)
C13_FirstMatchingRuleGivesTheKind ==
    (fmtResult # NotCalledYet /\ fmtValue # None) =>
        fmtResult = Serialised(KindFormat(StatedKind(fmtKey), fmtValue))

\* C13's case: epsGrowth5Y matches the currency rule through "eps" and the
\* percent rule through "growth"; 1.25 is rendered as currency.
C13_Witness ==
    /\ fmtKey = "epsGrowth5Y"
    /\ {12, 14} \subseteq MatchingFormatRules(fmtKey)
    /\ fmtValue = FloatValue(125, 100)
    /\ fmtResult = Returned(StrValue("$1.25"))

\* A key that matches no override, fixed set or keyword rule.
DefaultKey(k) == FirstFormatMatch(k) = Len(StatedFormatRules)

(***************************************************************************)
(* C14: for a key that matches no override, fixed set or keyword rule,     *)
(* every number, integer as well as floating point, is rendered with two   *)
(* decimals, and every other value is returned unchanged.                  *)
(***************************************************************************)
C14_DefaultRendersEveryNumber ==
    (fmtResult # NotCalledYet /\ fmtValue \notin {None, BigInt} /\ DefaultKey(fmtKey)) =>
        /\ fmtResult.status = "returned"
        /\ IF fmtValue.t \in {"int", "float"}
           THEN fmtResult.value = StrValue(Fmt2(float(fmtValue)))
           ELSE fmtResult.value = fmtValue

(***************************************************************************)
(* C15: the value 1250000000.0 under the key market_cap, read in millions  *)
(* as every value of that key is, is formatted as "$1250.00T"; it is the   *)
(* value 1250.0 that is formatted as "$1.25B".                             *)
(***************************************************************************)
C15_MarketCapIsReadInMillions ==
    (fmtKey = "market_cap" /\ fmtResult # NotCalledYet) =>
        /\ fmtValue = FloatValue(1250000000, 1) => fmtResult = Returned(StrValue("$1250.00T"))
        /\ fmtValue = FloatValue(1250, 1) => fmtResult = Returned(StrValue("$1.25B"))

\* C15's case: market_cap was formatted with the value 1250000000.0.
C15_Witness ==
    /\ fmtKey = "market_cap"
    /\ fmtValue = FloatValue(1250000000, 1)
    /\ fmtResult.status = "returned"
    /\ fmtResult.value.t = "str"

\* C15 as stated: 1250000000.0 under market_cap is formatted as "$1.25B".
C15_MarketCapIsOneAndAQuarterBillion ==
    (fmtKey = "market_cap" /\ fmtValue = FloatValue(1250000000, 1)
     /\ fmtResult # NotCalledYet) => fmtResult = Returned(StrValue("$1.25B"))

\* The compact-currency rendering of the number v, which is in millions.
CompactOf(v) ==
    IF AbsAtLeast(v, 1000000) THEN "$" \o Fmt2(DivInt(v, 1000000)) \o "T"
    ELSE IF AbsAtLeast(v, 1000) THEN "$" \o Fmt2(DivInt(v, 1000)) \o "B"
    ELSE "$" \o Fmt2(v) \o "M"

\* The value is a number or a string float() accepts.
Convertible(value) == value # None /\ ~IsRaise(float(value))

(***************************************************************************)
(* C16: a value v of the compact-currency kind is rendered with a leading  *)
(* `$`, two decimals and the suffix of its magnitude: v/1,000,000 and T    *)
(* from 1,000,000 on, v/1,000 and B from 1,000 on, v and M below; 1,000    *)
(* gives "$1.00B", 1,000,000 gives "$1.00T", 1,250,000 gives "$1.25T",     *)
(* and a negative value gets the suffix of its magnitude.                  *)
(***************************************************************************)
C16_CompactCurrencySuffixByMagnitude ==
    (fmtResult # NotCalledYet /\ StatedKind(fmtKey) = "compact" /\ Convertible(fmtValue)) =>
        /\ fmtResult = Returned(StrValue(CompactOf(float(fmtValue))))
        /\ fmtValue = IntValue(1000) => fmtResult.value.s = "$1.00B"
        /\ fmtValue = IntValue(1000000) => fmtResult.value.s = "$1.00T"
        /\ fmtValue = IntValue(1250000) => fmtResult.value.s = "$1.25T"
        /\ fmtValue = FloatValue(-1250000, 1) => fmtResult.value.s = "$-1.25T"
        /\ fmtValue = FloatValue(1999, 2) => fmtResult.value.s = "$999.50M"

\* C16's case: exactly 1,000 under a compact-currency key gives "$1.00B".
C16_Witness ==
    /\ fmtKey = "enterprise_value"
    /\ fmtValue = IntValue(1000)
    /\ fmtResult = Returned(StrValue("$1.00B"))

(***************************************************************************)
(* C17: for every key and every value the formatter returns without        *)
(* raising; when the key selects a numeric kind and the value cannot be    *)
(* converted to a number, the value is returned unchanged.                 *)
(***************************************************************************)
C17_FormatterNeverRaises ==
    fmtResult # NotCalledYet =>
        /\ fmtResult.status = "returned"
        /\ (~DefaultKey(fmtKey) /\ ~Convertible(fmtValue)) => fmtResult.value = fmtValue

(***************************************************************************)
(* Specification of the sort keys: a key is given, and each variant of     *)
(* _sort_key may be called on it.  The keys are the keys the pipeline      *)
(* produces, the keys of the priority tables, and every concatenation of   *)
(* at most MaxFragments fragments (window tokens, period suffixes, the     *)
(* to-date words and the tokens of the group ranks).                       *)
(***************************************************************************)

SortFragments ==
    { "x", "52Week", "5Day", "3Month", "High", "PriceReturn", "TTM", "Annual", "5Y",
      "Ytd", "monthToDate", "YearToDate" }

RECURSIVE SortConcatenations(_)
SortConcatenations(n) ==
    IF n = 0 THEN {""}
    ELSE LET shorter == SortConcatenations(n - 1)
         IN  shorter \cup { p \o f : p \in shorter, f \in SortFragments }

SortKeys == ProducedKeys \cup DOMAIN priority_web \cup SortConcatenations(MaxFragments)

InitSortKey ==
    /\ sortedKey \in SortKeys
    /\ cliKey = NotCalledYet
    /\ webKey = NotCalledYet
    /\ anaKey = NotCalledYet
    /\ IdleClassify
    /\ IdleGroup
    /\ IdleSnapshot
    /\ IdleRecommendation
    /\ IdleFormat
    /\ IdleAnalyze
    /\ IdleIndex

\* frontend/cli/main.py _sort_key(key)
SortKeyCli ==
    /\ cliKey = NotCalledYet
    /\ cliKey' = sort_key_cli(sortedKey)
    /\ UNCHANGED <<sortedKey, webKey, anaKey, classifyVars, groupVars, snapshotVars,
                   recommendationVars, formatVars, analyzeVars, indexVars>>

\* frontend/web/server.py _sort_key(key)
SortKeyWeb ==
    /\ webKey = NotCalledYet
    /\ webKey' = sort_key_web(sortedKey)
    /\ UNCHANGED <<sortedKey, cliKey, anaKey, classifyVars, groupVars, snapshotVars,
                   recommendationVars, formatVars, analyzeVars, indexVars>>

\* analysis/stock/single_stock.py _sort_key(key)
SortKeyAnalysis ==
    /\ anaKey = NotCalledYet
    /\ anaKey' = sort_key_analysis(sortedKey)
    /\ UNCHANGED <<sortedKey, cliKey, webKey, classifyVars, groupVars, snapshotVars,
                   recommendationVars, formatVars, analyzeVars, indexVars>>

NextSortKey == SortKeyCli \/ SortKeyWeb \/ SortKeyAnalysis

SpecSortKey == InitSortKey /\ [][NextSortKey]_vars

(***************************************************************************)
(* C18: in every sort-key variant, the sort key of each key of the         *)
(* variant's priority table is strictly smaller than the sort key of every *)
(* key that is not in the table.                                           *)
(***************************************************************************)
C18_HeadlineKeysSortFirst ==
    /\ (cliKey # NotCalledYet /\ sortedKey \notin DOMAIN priority_cli) =>
          \A h \in DOMAIN priority_cli : SortKeyLess(sort_key_cli(h), cliKey)
    /\ (webKey # NotCalledYet /\ sortedKey \notin DOMAIN priority_web) =>
          \A h \in DOMAIN priority_web : SortKeyLess(sort_key_web(h), webKey)
    /\ (anaKey # NotCalledYet /\ sortedKey \notin DOMAIN priority_web) =>
          \A h \in DOMAIN priority_web : SortKeyLess(sort_key_analysis(h), anaKey)

\* C18's case: the empty key, whose lowercased form is smaller than that of
\* every headline key, is not in the tables and all three variants have
\* answered.
C18_Witness ==
    /\ sortedKey = ""
    /\ cliKey # NotCalledYet /\ webKey # NotCalledYet /\ anaKey # NotCalledYet
    /\ cliKey.rank = 0

\* The window tokens and the period suffixes with their time ranks, as sets.
WindowTokens ==
    { <<"5Day", 5>>, <<"10Day", 10>>, <<"4Week", 28>>, <<"13Week", 91>>, <<"26Week", 182>>,
      <<"3Month", 90>>, <<"52Week", 364>> }
PeriodSuffixes ==
    { <<"Quarterly", 800>>, <<"Yoy", 820>>, <<"TTM", 900>>, <<"Annual", 1000>>,
      <<"3Y", 1200>>, <<"5Y", 1500>>, <<"YTD", 600>>, <<"Ytd", 600>> }

\* The window tokens k starts with, and the period suffixes k ends with.
Leading(k) == { t \in WindowTokens : StartsWith(k, t[1]) }
Trailing(k) == { t \in PeriodSuffixes : EndsWith(k, t[1]) }

\* k without its leading window token, and k without its trailing suffix.
DropLeading(k) ==
    IF Leading(k) = {} THEN k
    ELSE SubSeq(k, Len((CHOOSE t \in Leading(k) : TRUE)[1]) + 1, Len(k))
DropTrailing(k) ==
    IF Trailing(k) = {} THEN k
    ELSE SubSeq(k, 1, Len(k) - Len((CHOOSE t \in Trailing(k) : TRUE)[1]))

StatedBaseKey(k) == DropTrailing(DropLeading(k))

StatedTimeRank(k) ==
    IF Leading(k) # {} THEN (CHOOSE t \in Leading(k) : TRUE)[2]
    ELSE IF Trailing(k) # {} THEN (CHOOSE t \in Trailing(k) : TRUE)[2]
    ELSE IF Contains(lower(k), "monthtodate") THEN 550
    ELSE IF Contains(lower(k), "yeartodate") THEN 600
    ELSE 0

(***************************************************************************)
(* C19: for every key outside the priority table the CLI sort key is       *)
(* (two-digit group rank, "-", lowercased base key; time rank; lowercased  *)
(* key): the base key is the key without its leading window token and      *)
(* without its trailing period suffix, the time rank is that of the        *)
(* leading token, else of the trailing suffix, else of the to-date         *)
(* fallback, else 0.  52WeekHigh has group rank 1, base key High and time  *)
(* rank 364.                                                               *)
(***************************************************************************)
C19_SortKeyOfOtherKeys ==
    (cliKey # NotCalledYet /\ sortedKey \notin DOMAIN priority_cli) =>
        /\ Cardinality(Leading(sortedKey)) <= 1
        /\ Cardinality(Trailing(DropLeading(sortedKey))) <= 1
        /\ cliKey = SortKey(TwoDigits(price_return_group_rank(sortedKey)) \o "-"
                                \o lower(StatedBaseKey(sortedKey)),
                            StatedTimeRank(sortedKey), lower(sortedKey))
        /\ sortedKey = "52WeekHigh" => cliKey = SortKey("01-high", 364, "52weekhigh")

\* C19's case: 52WeekTTM starts with a window token and ends with a period
\* suffix; both are removed and the time rank is that of the window.
C19_Witness ==
    /\ sortedKey = "52WeekTTM"
    /\ cliKey = SortKey("03-", 364, "52weekttm")

\* The provider keys of the S&P-relative-price family.
RelativePriceKeys ==
    { "priceRelativeToS&P5004Week", "priceRelativeToS&P50013Week",
      "priceRelativeToS&P50026Week", "priceRelativeToS&P50052Week",
      "priceRelativeToS&P500Ytd" }

(***************************************************************************)
(* C20: every provider key of the S&P-relative-price family has group rank *)
(* 2, the group rank of the keys that mention "return".                    *)
(***************************************************************************)
C20_RelativePriceKeysHaveRankTwo ==
    (cliKey # NotCalledYet /\ sortedKey \in RelativePriceKeys) =>
        /\ price_return_group_rank(sortedKey) = 2
        /\ StartsWith(cliKey.bucket, "02-")

(***************************************************************************)
(* Specification of the groupers over windowed keys: one serialised base   *)
(* map holds `symbol` and at most MaxKeys of the windowed keys the fetcher *)
(* copies from the provider's metrics, in any order, and one grouper is    *)
(* called on it.                                                           *)
(***************************************************************************)

\* The price-return family and the S&P-relative-price family, each from the
\* shortest window to the longest.
PriceReturnFamily ==
    << "5DayPriceReturnDaily", "13WeekPriceReturnDaily", "26WeekPriceReturnDaily",
       "52WeekPriceReturnDaily" >>
RelativePriceFamily ==
    << "priceRelativeToS&P5004Week", "priceRelativeToS&P50013Week",
       "priceRelativeToS&P50026Week", "priceRelativeToS&P50052Week" >>
WindowFamilies == { PriceReturnFamily, RelativePriceFamily }

\* Members of the two families and two other keys of the same section.
WindowKeyPool ==
    { "5DayPriceReturnDaily", "13WeekPriceReturnDaily", "52WeekPriceReturnDaily",
      "priceRelativeToS&P5004Week", "priceRelativeToS&P50013Week",
      "priceRelativeToS&P50052Week", "52WeekHigh", "monthToDatePriceReturnDaily" }

RECURSIVE WindowMapsOfLen(_)
WindowMapsOfLen(n) ==
    IF n = 0 THEN { << [k |-> "symbol", v |-> StrValue("AAPL")] >> }
    ELSE UNION { { Append(m, [k |-> k, v |-> SampleValue(n)]) :
                     k \in WindowKeyPool \ { m[i].k : i \in DOMAIN m } } :
                 m \in WindowMapsOfLen(n - 1) }

InitWindows ==
    /\ stocks \in { << m >> : m \in UNION { WindowMapsOfLen(n) : n \in 0..MaxKeys } }
    /\ grouper = NoGrouper
    /\ grouped = << >>
    /\ IdleClassify
    /\ IdleSnapshot
    /\ IdleRecommendation
    /\ IdleFormat
    /\ IdleSortKey
    /\ IdleAnalyze
    /\ IdleIndex

SpecWindows == InitWindows /\ [][NextGroup]_vars

\* The positions, in the rows of one section, of the members of a family.
FamilyPositions(rows, family) ==
    { r \in DOMAIN rows : rows[r].k \in Range(family) }

\* The index of a key in its family: its place in the order of the windows.
WindowIndex(family, k) == CHOOSE i \in DOMAIN family : family[i] = k

\* The members of a family are next to each other, shortest window first.
FamilyInWindowOrder(rows, family) ==
    LET at == FamilyPositions(rows, family)
    IN  /\ \A r \in at : \A s \in at :
              r < s => WindowIndex(family, rows[r].k) < WindowIndex(family, rows[s].k)
        /\ \A r \in at : \A s \in at : \A m \in DOMAIN rows :
              (r < m /\ m < s) => m \in at

(***************************************************************************)
(* C21: after a section is sorted, the members of the price-return family  *)
(* (5Day, 13Week, 26Week, 52Week PriceReturnDaily) and the members of the  *)
(* S&P-relative-price family (4Week, 13Week, 26Week, 52Week) are each next *)
(* to each other and ordered shortest window first.                        *)
(***************************************************************************)
C21_FamiliesAreContiguousShortestFirst ==
    grouper # NoGrouper =>
        \A g \in DOMAIN grouped : \A family \in WindowFamilies :
            FamilyInWindowOrder(grouped[g].rows, family)

\* The same for the price-return family alone.
PriceReturnFamilyInWindowOrder ==
    grouper # NoGrouper =>
        \A g \in DOMAIN grouped : FamilyInWindowOrder(grouped[g].rows, PriceReturnFamily)

(***************************************************************************)
(* Specification of the groupers over keys with long labels: one           *)
(* serialised base map holds `symbol` and at most MaxKeys of the keys of   *)
(* LabelKeyPool, and one grouper is called on it.                          *)
(***************************************************************************)

\* The keys of the override table, produced keys whose label is over the web
\* budget (one that fits after one abbreviation, one that fits after several,
\* one that no abbreviation shortens), and a key with a short label.
LabelKeyPool ==
    { "3MonthAvgDailyReturnStdDev", "recommendation", "recommendation_counts", "focfCagr5Y",
      "tbvCagr5Y", "currentEv/freeCashFlowAnnual", "tangibleBookValuePerShareAnnual",
      "netIncomeCommonStockholders", "volume" }

RECURSIVE LabelMapsOfLen(_)
LabelMapsOfLen(n) ==
    IF n = 0 THEN { << [k |-> "symbol", v |-> StrValue("AAPL")] >> }
    ELSE UNION { { Append(m, [k |-> k, v |-> SampleValue(n)]) :
                     k \in LabelKeyPool \ { m[i].k : i \in DOMAIN m } } :
                 m \in LabelMapsOfLen(n - 1) }

InitLabels ==
    /\ stocks \in { << m >> : m \in UNION { LabelMapsOfLen(n) : n \in 0..MaxKeys } }
    /\ grouper = NoGrouper
    /\ grouped = << >>
    /\ IdleClassify
    /\ IdleSnapshot
    /\ IdleRecommendation
    /\ IdleFormat
    /\ IdleSortKey
    /\ IdleAnalyze
    /\ IdleIndex

SpecLabels == InitLabels /\ [][NextGroup]_vars

\* The rows <<group, row>> of the grouped result.
GroupedRows == UNION { { <<g, r>> : r \in DOMAIN grouped[g].rows } : g \in DOMAIN grouped }

\* Whether the called grouper labels its rows under the web/comparison policy.
WebLabelPolicy == grouper # NoGrouper /\ grouper.variant \in {"web", "comparison"}

\* The label of a key before the budget is applied, and the budget.
WebRawLabel(k) == IF k \in DOMAIN overrides_web THEN overrides_web[k] ELSE to_title_camel(k)
WebLabelBudget == Len(overrides_web["3MonthAvgDailyReturnStdDev"])

\* The label, then the label after the first entry of the abbreviation list was
\* applied, after the first two, and so on to the whole list (from entry n on).
RECURSIVE AbbreviationSteps(_, _)
AbbreviationSteps(label, n) ==
    IF n > Len(replacements) THEN << label >>
    ELSE << label >>
         \o AbbreviationSteps(Replace(label, replacements[n][1], replacements[n][2]), n + 1)

\* The first of the steps that is within budget; if there is none, the last step
\* cut to one character less than the budget, with the ellipsis appended.
FirstFitting(steps, budget) ==
    LET fitting == { i \in DOMAIN steps : Len(steps[i]) <= budget }
    IN  IF fitting # {} THEN steps[CHOOSE i \in fitting : \A m \in fitting : i <= m]
        ELSE SubSeq(steps[Len(steps)], 1, budget - 1) \o Ellipsis

\* What the stated policy asks of the label `shown` of a row, given the steps of
\* the label before the budget was applied.
WithinStatedPolicy(shown, steps, budget) ==
    /\ Len(shown) <= budget
    /\ shown = FirstFitting(steps, budget)
    /\ Len(steps[1]) <= budget => shown = steps[1]
    /\ Len(steps[Len(steps)]) > budget =>
          /\ Len(shown) = budget
          /\ SubSeq(shown, budget, budget) = Ellipsis

(***************************************************************************)
(* C22: under the web/comparison label policy every label is at most as    *)
(* long as the budget: a label within budget is returned unchanged; a      *)
(* label over budget has the abbreviations applied in order, one entry at  *)
(* a time, until it fits; a label over budget after the whole list is cut  *)
(* so that it has exactly the budget length with the ellipsis appended.    *)
(***************************************************************************)
C22_WebLabelsFitTheBudget ==
    WebLabelPolicy =>
        \A p \in GroupedRows :
            WithinStatedPolicy(grouped[p[1]].rows[p[2]].label,
                               AbbreviationSteps(WebRawLabel(grouped[p[1]].rows[p[2]].k), 1),
                               WebLabelBudget)

\* C22's case: the web grouper was called on a map with a key whose label fits
\* after the third abbreviation (a later entry of the list would shorten it
\* further) and a key whose label no abbreviation shortens, which is cut.
C22_Witness ==
    /\ grouper # NoGrouper
    /\ grouper.variant = "web"
    /\ \E p \in GroupedRows :
          /\ grouped[p[1]].rows[p[2]].k = "currentEv/freeCashFlowAnnual"
          /\ grouped[p[1]].rows[p[2]].label = "CurrentEvFreeCashFlowAnn"
    /\ \E p \in GroupedRows :
          /\ grouped[p[1]].rows[p[2]].k = "netIncomeCommonStockholders"
          /\ grouped[p[1]].rows[p[2]].label = "NetIncomeCommonStockholde" \o Ellipsis

\* The override values of the CLI policy.
overrides_cli ==
    [k \in DOMAIN overrides_web |-> label_for_key_cli(k)]

\* The longest override value of a table.
LongestOverride(overrides) ==
    CHOOSE n \in { Len(overrides[k]) : k \in DOMAIN overrides } :
        \A k \in DOMAIN overrides : Len(overrides[k]) <= n

(***************************************************************************)
(* C23: under the CLI policy and under the web policy the label of every   *)
(* key of the override table is that key's override value, and the web     *)
(* budget is the length of the longest override value.                     *)
(***************************************************************************)
C23_OverrideLabelsAreNeverShortened ==
    (grouper # NoGrouper /\ grouper.variant \in {"cli", "web", "comparison"}) =>
        /\ WebLabelBudget = LongestOverride(overrides_web)
        /\ \A p \in GroupedRows :
              LET row == grouped[p[1]].rows[p[2]]
              IN  row.k \in DOMAIN overrides_web =>
                     row.label = IF grouper.variant = "cli" THEN overrides_cli[row.k]
                                 ELSE overrides_web[row.k]

\* Whether the outcome of a query is a snapshot that has an analysis map.
HasAnalysis(outcome) == outcome.status = "returned" /\ outcome.value.analysis # None

(***************************************************************************)
(* C24: what query_stock_indicators leaves for a caller with a resolved    *)
(* key has an analysis map exactly when the caller passed                  *)
(* include_analysis = true, and has none exactly when the caller opted     *)
(* out.                                                                    *)
(***************************************************************************)
C24_AnalysisExactlyWhenIncluded ==
    [][\A include_analysis \in BOOLEAN :
          QueryStockIndicators(TRUE, include_analysis) =>
              (HasAnalysis(queried') <=> include_analysis)]_vars

\* No snapshot has an analysis map, and no serialised snapshot an `analysis` key.
AnalysisIsNeverSet ==
    /\ queried.status = "returned" => queried.value.analysis = None
    /\ payload.status = "returned" => ~Has(payload.value.items, "analysis")

\* The operations of the client build_base_indicators invokes.
InvokedOperations(include_analysis) ==
    {"quote", "company_profile", "basic_financials"}
    \cup (IF include_analysis THEN {"recommendation_trends"} ELSE {})

(***************************************************************************)
(* C28: every operation build_base_indicators invokes with                 *)
(* include_analysis = true is offered by the client query_stock_indicators *)
(* constructs, and a query with a resolved key and include_analysis = true *)
(* does not fail for a missing operation.                                  *)
(***************************************************************************)
C28_QueryNeverLacksAnOperation ==
    [][QueryStockIndicators(TRUE, TRUE) =>
          /\ InvokedOperations(TRUE) \subseteq FinnhubClient
          /\ ~(queried'.status = "raised" /\ queried'.exc = "AttributeError")]_vars

\* The headline fields the sort order is stated for.
StatedHeadlineKeys ==
    { "quote_timestamp", "open_price", "high_price", "low_price", "close_price",
      "previous_close", "market_cap", "volume" }

(***************************************************************************)
(* C25: for any two of the headline fields quote_timestamp, open_price,    *)
(* high_price, low_price, close_price, previous_close, market_cap and      *)
(* volume, the CLI, web and analysis sort keys agree on which of the two   *)
(* sorts first.                                                            *)
(***************************************************************************)
C25_VariantsAgreeOnHeadlineOrder ==
    (/\ sortedKey \in StatedHeadlineKeys
     /\ cliKey # NotCalledYet /\ webKey # NotCalledYet /\ anaKey # NotCalledYet) =>
        \A h \in StatedHeadlineKeys :
            /\ SortKeyLess(cliKey, sort_key_cli(h)) <=> SortKeyLess(webKey, sort_key_web(h))
            /\ SortKeyLess(webKey, sort_key_web(h)) <=> SortKeyLess(anaKey, sort_key_analysis(h))

\* The same without market_cap, and between the web and analysis variants.
HeadlineOrderAgreesButForMarketCap ==
    (cliKey # NotCalledYet /\ webKey # NotCalledYet /\ anaKey # NotCalledYet) =>
        /\ sortedKey \in StatedHeadlineKeys \ {"market_cap"} =>
              \A h \in StatedHeadlineKeys \ {"market_cap"} :
                  SortKeyLess(cliKey, sort_key_cli(h)) <=> SortKeyLess(webKey, sort_key_web(h))
        /\ sortedKey \in DOMAIN priority_web =>
              \A h \in DOMAIN priority_web :
                  SortKeyLess(webKey, sort_key_web(h)) <=> SortKeyLess(anaKey, sort_key_analysis(h))

\* The keys of the classifier check the CLI classifier sends to a section.
CliSectionKeys(section) == { k \in ClassifierKeys : classify_indicator_cli(k) = section }

(***************************************************************************)
(* C26: for each of the eleven sections of the catalog there is a key the  *)
(* CLI classifier maps to it: no rule is shadowed by the rules evaluated   *)
(* before it.                                                              *)
(***************************************************************************)
C26_EverySectionIsReachable ==
    cliSection # NotCalled =>
        \A section \in Range(ordered_sections) : CliSectionKeys(section) # {}

\* A key holding "pershare" holds "pe", the token of the Valuation rule, which is
\* evaluated before the Per-Share rule: the classifier never answers Per-Share.
PerShareIsShadowed ==
    /\ Contains(lower(key), "pershare") => Contains(lower(key), "pe")
    /\ \A section \in {cliSection, webSection, anaSection} : section # "Per-Share"

(***************************************************************************)
(* C27: every classifier variant sends `capex`, `operating_cash_flow` and  *)
(* `free_cash_flow` to Cash Flow, and `market_cap` and `enterprise_value`  *)
(* to Valuation.                                                           *)
(***************************************************************************)
C27_FixedKeysAreUnderTheirSection ==
    \A section \in {cliSection, webSection, anaSection} \ {NotCalled} :
        /\ key \in {"capex", "operating_cash_flow", "free_cash_flow"} => section = "Cash Flow"
        /\ key \in {"market_cap", "enterprise_value"} => section = "Valuation"

\* Of the five keys only free_cash_flow is under the section named for it.
FixedKeySections ==
    \A section \in {cliSection, webSection, anaSection} \ {NotCalled} :
        /\ key \in {"capex", "operating_cash_flow"} => section = "Valuation"
        /\ key = "free_cash_flow" => section = "Cash Flow"
        /\ key \in {"market_cap", "enterprise_value"} => section = "Price & Returns"

(***************************************************************************)
(* Section analysis (analysis/stock/single_stock.py, analysis/stock/       *)
(* schema.py).  The provider is outside the program: what it answers to    *)
(* each call is an input, a raw answer or an exception (the OpenAI         *)
(* provider raises RuntimeError when the request fails).                   *)
(***************************************************************************)

SampleProviderName == "openai"

\* Raw answers of a provider: a dict with a padded summary and a bare string
\* where a list is expected, a dict without summary whose list holds a None,
\* and an answer that is no dict.
RawAnswers ==
    << DictValue(<< [k |-> "summary", v |-> StrValue(" Solid quarter. ")],
                    [k |-> "risks", v |-> StrValue("debt")] >>),
       DictValue(<< [k |-> "highlights", v |-> ListValue(<< StrValue("growth"), None >>)] >>),
       StrValue("plain text") >>

\* What the provider does on its i-th call: the call numbered `failing` raises
\* (none if failing = 0), the others answer the raw answers in turn.
ProviderAnswer(failing, i) ==
    IF i = failing THEN Raise("RuntimeError")
    ELSE RawAnswers[((i - 1) % Len(RawAnswers)) + 1]

\* _ensure_list, on None, a list of strings and None, or a string
ensure_list(value) ==
    IF value.t = "list"
    THEN LET kept == SelectSeq(value.items, LAMBDA item : item # None)
         IN  [i \in DOMAIN kept |-> kept[i].s]
    ELSE IF value = None THEN << >>
    ELSE << value.s >>

\* normalize_section_result(raw).as_dict(), on a dict of strings and lists or a string
normalize_section_result(raw) ==
    IF raw.t = "dict"
    THEN LET given == Get(raw.items, "summary")
             text == strip(IF Truthy(given) THEN given.s ELSE "")
         IN  [summary |-> IF text # "" THEN text ELSE "No summary provided.",
              highlights |-> ensure_list(Get(raw.items, "highlights")),
              risks |-> ensure_list(Get(raw.items, "risks")),
              questions |-> ensure_list(Get(raw.items, "questions"))]
    ELSE [summary |-> raw.s, highlights |-> << >>, risks |-> << >>, questions |-> << >>]

\* The loop of analyze_single_stock_sections from section i on: `sent` are the
\* payloads handed to the provider so far, `sections` the results so far.  An
\* exception of the provider ends the call.
RECURSIVE AnalyzeEach(_, _, _, _, _, _)
AnalyzeEach(symbol, groups, i, sent, sections, failing) ==
    IF i > Len(groups)
    THEN [calls |-> sent,
          outcome |-> Returned([symbol |-> symbol, provider |-> SampleProviderName,
                                sections |-> sections])]
    ELSE LET Step(section_payload, raw) ==
                 IF IsRaise(raw)
                 THEN [calls |-> Append(sent, section_payload),
                       outcome |-> Raised(raw.exc, "analyze")]
                 ELSE AnalyzeEach(symbol, groups, i + 1, Append(sent, section_payload),
                                  Append(sections, [k |-> groups[i].section,
                                                    v |-> normalize_section_result(raw)]),
                                  failing)
         IN  Step([symbol |-> symbol, section |-> groups[i].section,
                   current |-> groups[i].rows],
                  ProviderAnswer(failing, i))

\* An analysis that hands the whole indicator map to the provider in one payload.
analyze_single_stock_sections_without_grouping(snapshot, failing) ==
    LET Grouped(data) ==
            IF IsRaise(data) THEN [calls |-> << >>, outcome |-> Raised(data.exc, "format")]
            ELSE AnalyzeEach(snapshot.symbol,
                             NonEmptyGroups(<< [section |-> "Price & Returns",
                                                rows |-> SelectSeq(data.items,
                                                            LAMBDA e : e.k # "symbol")] >>),
                             1, << >>, << >>, failing)
    IN  Grouped(StockBaseIndicators_as_dict(snapshot.base))

\* analyze_single_stock_sections(snapshot, provider=...): the payloads handed to
\* the provider and the outcome, a results dict or the exception raised by the
\* serialisation of the base or by the provider.
analyze_single_stock_sections(snapshot, failing) ==
    LET Grouped(data) ==
            IF IsRaise(data) THEN [calls |-> << >>, outcome |-> Raised(data.exc, "format")]
            ELSE AnalyzeEach(snapshot.symbol, group_indicators_analysis(data.items),
                             1, << >>, << >>, failing)
    IN  Grouped(StockBaseIndicators_as_dict(snapshot.base))

(***************************************************************************)
(* Specification of the section analysis: the provider's answers are       *)
(* given as for a query, the snapshot is queried, and the sections of the  *)
(* snapshot are analysed by a provider.                                    *)
(***************************************************************************)

\* The provider raises on one of its first MaxCalls calls, or on none.
MaxCalls == 3

AnalyzeSections(failing) ==
    /\ queried.status = "returned"
    /\ analysed = NotCalledYet
    /\ \E done \in { analyze_single_stock_sections(queried.value, failing) } :
          /\ calls' = done.calls
          /\ analysed' = done.outcome
    /\ UNCHANGED <<classifyVars, groupVars, snapshotVars, recommendationVars, formatVars,
                   sortVars, indexVars>>

NextAnalyze ==
    \/ \E resolved_key \in BOOLEAN, include_analysis \in BOOLEAN :
          QueryStockIndicators(resolved_key, include_analysis)
    \/ \E failing \in 0..MaxCalls :
          AnalyzeSections(failing)

SpecAnalyze == InitSnapshot /\ [][NextAnalyze]_vars

\* The serialised base map of the snapshot at hand.
SnapshotData == StockBaseIndicators_as_dict(queried.value.base)

\* The section of each entry of the map `items`, by position.
SectionsOfEntries(items) ==
    [i \in DOMAIN items |-> classify_indicator_analysis(items[i].k)]

\* The indicators of a section, `sectionOf` holding the section of each entry.
SectionIndicators(items, sectionOf, section) ==
    { items[i] : i \in { j \in DOMAIN items :
                            items[j].k # "symbol" /\ sectionOf[j] = section } }

\* The sections of the catalog that hold an indicator, in catalog order.
SnapshotSections(items, sectionOf) ==
    SelectSeq(ordered_sections_short,
              LAMBDA section : SectionIndicators(items, sectionOf, section) # {})

\* The payloads `sent` are those of the first of the sections `expected` of the
\* map `items`, one each and in catalog order, each with the symbol, the name of
\* its section and exactly the indicators of its section.
PayloadsAsStated(symbol, items, sectionOf, expected, sent) ==
    /\ Len(sent) <= Len(expected)
    /\ \A i \in DOMAIN sent :
          /\ sent[i].symbol = symbol
          /\ sent[i].section = expected[i]
          /\ Range(sent[i].current) = SectionIndicators(items, sectionOf, expected[i])
          /\ Len(sent[i].current)
                = Cardinality(SectionIndicators(items, sectionOf, expected[i]))

\* Every section of the map was sent, the results have exactly the sections as
\* keys, and every indicator but `symbol` is in exactly one payload.
EverySectionAnalysed(items, expected, sent, outcome) ==
    /\ Len(sent) = Len(expected)
    /\ outcome.status = "returned"
    /\ [i \in DOMAIN outcome.value.sections |-> outcome.value.sections[i].k] = expected
    /\ \A e \in Range(items) :
          e.k # "symbol" =>
              Cardinality({ i \in DOMAIN sent : e \in Range(sent[i].current) }) = 1

\* The statement, for the entries of the serialised base map of the snapshot,
\* their sections and the sections expected.
AnalysedAsStated(items, sectionOf, expected) ==
    /\ PayloadsAsStated(queried.value.symbol, items, sectionOf, expected, calls)
    /\ EverySectionAnalysed(items, expected, calls, analysed)

\* The statement with the case of a call that raises.
AnalysedUntilACallRaises(items, sectionOf, expected) ==
    /\ PayloadsAsStated(queried.value.symbol, items, sectionOf, expected, calls)
    /\ analysed.status \in {"returned", "raised"}
    /\ analysed.status = "returned" => EverySectionAnalysed(items, expected, calls, analysed)
    /\ analysed.status = "raised" =>
          /\ calls # << >>
          /\ analysed.at = "analyze"

\* A statement about the analysis of a snapshot whose base map serialises.
OfSerialised(Statement(_, _, _), data) ==
    LET WithSections(items, sectionOf) ==
            Statement(items, sectionOf, SnapshotSections(items, sectionOf))
    IN  ~IsRaise(data) => WithSections(data.items, SectionsOfEntries(data.items))

RECURSIVE upper(_)
upper(s) ==
    IF s = "" THEN ""
    ELSE (IF CharAt(s, 1) \in DOMAIN ord THEN UpperChar(CharAt(s, 1)) ELSE CharAt(s, 1))
         \o upper(SubSeq(s, 2, Len(s)))

\* The leading characters of s up to its first comma.
RECURSIVE UpToComma(_)
UpToComma(s) ==
    IF s = "" \/ CharAt(s, 1) = "," THEN ""
    ELSE CharAt(s, 1) \o UpToComma(SubSeq(s, 2, Len(s)))

\* s.split(",")
RECURSIVE SplitOnComma(_)
SplitOnComma(s) ==
    LET item == UpToComma(s)
    IN  IF Len(item) = Len(s) THEN << item >>
        ELSE << item >> \o SplitOnComma(SubSeq(s, Len(item) + 2, Len(s)))

\* [item.strip().upper() for item in symbol_value.split(",") if item.strip()]
\* with symbol_value = (symbol or "").strip().upper()
request_symbols(symbol) ==
    LET items == SplitOnComma(upper(strip(symbol)))
        kept == SelectSeq(items, LAMBDA item : strip(item) # "")
    IN  [i \in DOMAIN kept |-> upper(strip(kept[i]))]

\* What the provider answers for the i-th symbol of a request.
IndexAnswers ==
    << NothingFetched,
       FetchedOf(<< [part |-> "quote", k |-> "", v |-> DictValue(SampleQuote)] >>) >>
IndexAnswer(turn, i) == IndexAnswers[((turn + i) % Len(IndexAnswers)) + 1]

\* client.query(item) followed by snapshot.base.as_dict(), for the client
\* StockFrontendClient() of the server: no key but the environment's, and
\* include_analysis = True.
LookUp(item, answers, resolved_key) ==
    LET Serialise(snapshot, data) ==
            IF IsRaise(data) THEN [symbol |-> item, status |-> "raised", exc |-> data.exc]
            ELSE [symbol |-> item, status |-> "returned", data |-> data.items]
        Queried(outcome) ==
            IF outcome.status = "raised"
            THEN [symbol |-> item, status |-> "raised", exc |-> outcome.exc]
            ELSE Serialise(outcome.value, StockBaseIndicators_as_dict(outcome.value.base))
    IN  Queried(query_stock_indicators(answers, StrValue(item), resolved_key, TRUE))

\* The stocks of the comparison table: `data is not None and len(data) > 1`.
valid_lookups(found) ==
    SelectSeq(found, LAMBDA e : e.status = "returned" /\ Len(e.data) > 1)

\* What index renders for the stocks looked up.
RenderIndex(found) ==
    LET valid == valid_lookups(found)
    IN  Returned([stocks |-> [i \in DOMAIN valid |-> valid[i].symbol],
                  sections |-> IF valid = << >> THEN << >>
                               ELSE group_indicator_keys([i \in DOMAIN valid |-> valid[i].data]),
                  prompt |-> found = << >>])

\* The loop of index from symbol i on; `found` are the stocks so far.  An
\* exception of a query is caught and the stock is recorded without data.
RECURSIVE IndexEach(_, _, _, _, _)
IndexEach(symbols, i, found, turn, resolved_key) ==
    IF i > Len(symbols) THEN [lookups |-> found, page |-> RenderIndex(found)]
    ELSE IndexEach(symbols, i + 1,
                   Append(found, LookUp(symbols[i], IndexAnswer(turn, i), resolved_key)),
                   turn, resolved_key)

\* A loop without the try: the first exception of a query ends the request.
RECURSIVE IndexEachUncaught(_, _, _, _, _)
IndexEachUncaught(symbols, i, found, turn, resolved_key) ==
    IF i > Len(symbols) THEN [lookups |-> found, page |-> RenderIndex(found)]
    ELSE LET Next(looked) ==
                 IF looked.status = "raised"
                 THEN [lookups |-> Append(found, looked),
                       page |-> Raised(looked.exc, "query")]
                 ELSE IndexEachUncaught(symbols, i + 1, Append(found, looked), turn,
                                        resolved_key)
         IN  Next(LookUp(symbols[i], IndexAnswer(turn, i), resolved_key))

\* An index page whose first failing query ends the request.
index_without_isolation(symbol, turn, resolved_key) ==
    IndexEachUncaught(request_symbols(symbol), 1, << >>, turn, resolved_key)

\* index(symbol=...): the symbols handed to client.query with what came of
\* each, and the page.
index(symbol, turn, resolved_key) ==
    IndexEach(request_symbols(symbol), 1, << >>, turn, resolved_key)

(***************************************************************************)
(* Specification of the index page: a request names at most MaxSymbols     *)
(* comma-separated items, and the page is rendered for it.                 *)
(***************************************************************************)

MaxSymbols == 3

\* The items of a request: symbols in both letter cases and with blanks around,
\* and an empty item.
RequestItems == { "aapl", " MSFT ", "Goog", "" }

RECURSIVE RequestsOfLen(_)
RequestsOfLen(n) ==
    IF n = 1 THEN RequestItems
    ELSE { r \o "," \o item : r \in RequestsOfLen(n - 1), item \in RequestItems }

InitIndex ==
    /\ requested \in UNION { RequestsOfLen(n) : n \in 1..MaxSymbols }
    /\ lookups = << >>
    /\ page = NotCalledYet
    /\ IdleClassify
    /\ IdleGroup
    /\ IdleSnapshot
    /\ IdleRecommendation
    /\ IdleFormat
    /\ IdleSortKey
    /\ IdleAnalyze

Index(turn, resolved_key) ==
    /\ page = NotCalledYet
    /\ \E done \in { index(requested, turn, resolved_key) } :
          /\ lookups' = done.lookups
          /\ page' = done.page
    /\ UNCHANGED <<requested, classifyVars, groupVars, snapshotVars, recommendationVars,
                   formatVars, sortVars, analyzeVars>>

NextIndex == \E turn \in DOMAIN IndexAnswers, resolved_key \in BOOLEAN : Index(turn, resolved_key)

SpecIndex == InitIndex /\ [][NextIndex]_vars

\* Whether the stock of a lookup belongs in the comparison table: its query did
\* not raise and its serialised base map holds an indicator besides `symbol`.
HasIndicators(looked) ==
    /\ looked.status = "returned"
    /\ \E i \in DOMAIN looked.data : looked.data[i].k # "symbol"

=============================================================================
